---- MODULE Spec2Model ----
(***************************************************************************)
(* Job queue (jobs/queue.py), worker loop (worker/main.py) and the session *)
(* scope (db/session.py) of VoiceCompanionAI.                              *)
(*                                                                         *)
(* The job table lives in PostgreSQL.  `jobs` is the committed table, the  *)
(* one every session reads.  Each worker owns one session per loop         *)
(* iteration; `tx[w]` is the row image that session has flushed but not    *)
(* committed.  A flushed row is row-locked by its session until that       *)
(* session commits or rolls back; an UPDATE of a row locked by another     *)
(* session waits, SELECT ... FOR UPDATE SKIP LOCKED passes it over.        *)
(*                                                                         *)
(* Session behaviour the worker loop relies on (SQLAlchemy AsyncSession,   *)
(* expire_on_commit=False, db/session.py:16-20):                           *)
(*   - flush() sends the pending changes inside the open transaction;      *)
(*     only commit() makes them visible to other sessions;                 *)
(*   - commit() keeps the loaded instances usable;                         *)
(*   - rollback() of a transaction in progress discards what was flushed   *)
(*     and expires every loaded instance; with no transaction in progress  *)
(*     it does nothing;                                                    *)
(*   - reading an attribute of an expired instance needs a reload of the   *)
(*     row, which an AsyncSession refuses outside an awaited call          *)
(*     (MissingGreenlet); both outcomes are kept, see RefreshOutcomes.     *)
(*                                                                         *)
(* Positions of a worker in run_loop (pc):                                 *)
(*   idle        line 42/99, between iterations                            *)
(*   handler     line 65, inside the handler                               *)
(*   completing  after complete_job (line 67), before commit (line 69)     *)
(*   rolledback  after db.rollback() (line 75), before fail_job (line 78)  *)
(*   failing     after fail_job and log_event, before commit (line 94)     *)
(*   abandoned   an exception left the session scope, session not closed   *)
(*   crashed     the worker process is gone                                *)
(***************************************************************************)
EXTENDS Integers, FiniteSets, Sequences, TLC

\* ---------------------------------------------------------------- bounds
\* Instants: the clock values at which anything is observed (seconds); they
\* straddle the backoff of 1 and 2 s and the 60 s lease timeout.
\* Enqueue draws max_attempts from {1, MaxMaxAttempts}; 3 is the default of
\* enqueue and lets a retry happen with attempts = 2.  Results holds two
\* handler results so that two complete_job calls can differ.
Workers == {"w1", "w2"}
JobIds == {1}
Instants == {0, 1, 2, 59, 60, 62}
MaxMaxAttempts == 3
ErrMsgs == {"boom"}
Results == {"r1", "r2"}
\* the bounds of the specification of the queue functions (SpecQ): two jobs,
\* two instants a lease timeout apart, every kind of job_types argument,
\* a result and no result passed to complete_job
QJobIds == {1, 2}
QInstants == {0, 61}
JobTypeFilters == {{}, {"PROCESS_VOICE_INTERACTION"}, {"UNKNOWN_TYPE"}}
QResults == {"r1", "None"}
\* the payloads enqueue is given: two in the worker specification so that a
\* write of another job's payload would show, one in SpecQ
Payloads == {"p1", "p2"}
\* the errors the store raises on a statement or a commit
StorageErrors == {"OperationalError"}
\* the bounds of the specification with storage errors (SpecE): instants
\* that straddle a backoff and the lease timeout, max_attempts 1 and 2
EInstants == {0, 2, 62}
EMaxAttempts == {1, 2}
\* the bounds of the specifications with fairness: two instants a lease
\* timeout apart, one attempt
LInstants == {0, 61}
LMaxAttempts == {1}
\* the bounds of the specification of retries with fairness (FairR): a
\* lease timeout and the backoff of a first failure after it, two attempts
RInstants == {0, 60, 62}
RMaxAttempts == {2}
\* the number of times the handler is invoked for one interaction (SpecH)
MaxInvocations == 3
\* the interactions of the conversation (SpecH): a story request and three
\* answers
MaxTurns == 4
\* what the child says: a plain no, a yes, a cancel, a correction, a story
\* request with and without a theme, and small talk
Utterances ==
    {<<"no">>, <<"yes">>, <<"stop">>, <<"no", "about", "dinosaurs">>,
     <<"tell", "me", "a", "story", "about", "space">>, <<"story">>,
     <<"hello">>}
\* the themes random.choice(DEFAULT_THEMES) gives
DefaultThemes == {<<"a calm ocean journey with a kind whale">>}
\* what get_favorite_characters returns: nothing, or one character
FavoriteLists == {{}, {"bluey"}}
QPayloads == {"p1"}
\* the bounds of the specification of the voice upload (SpecV): the instants
\* the backoffs of a first and a second failure end at, small talk and a
\* story request
VInstants == {0, 2, 6}
VUtterances == {<<"hello">>, <<"story">>}

\* ------------------------------------------------------------- constants
LOCK_TIMEOUT_SECONDS == 60
DEFAULT_MAX_ATTEMPTS == 3

HANDLERS == {"PROCESS_VOICE_INTERACTION", "SUMMARIZE_PROFILE"}
JobTypes == {"PROCESS_VOICE_INTERACTION", "UNKNOWN_TYPE"}

NoJob == 0
Omitted == 0
NullStr == "null"
NullTime == -1
WORKER_ID(w) == w

VARIABLES
    jobs,       \* committed rows of table jobs: id -> row, or NoRow
    now,        \* utcnow(), seconds
    pc,         \* position of each worker in run_loop
    cur,        \* id of the job the worker's iteration holds (job.id)
    mem,        \* the worker's in-memory Job instance
    tx,         \* row image flushed by the worker's session, not committed
    txActive,   \* the session has a transaction in progress
    expired,    \* the in-memory Job instance was expired by a rollback
    exc,        \* message of the exception caught at run_loop line 71
    evPending,  \* job_failed event flushed, not committed
    events,     \* job ids with a committed job_failed event
    lease,      \* history: what the worker's dequeue found and when
    hist,       \* history: per job, the claim cycles ended by a raise and
                \* the end of the last backoff a fail_job re-arm opened
    voice,      \* one voice interaction and the run of its handler
    conv,       \* the conversation of the interaction: its story intent
    req         \* the session of the API request that uploads the audio

vars == <<jobs, now, pc, cur, mem, tx, txActive, expired, exc,
          evPending, events, lease, hist, voice, conv, req>>

NoRow == [status |-> "absent"]
NoTx == [job |-> NoJob]
NoLease == [at |-> NullTime]

\* the Interaction a voice upload creates for the audio of the text `said`,
\* the turn-th of its conversation (routes/voice.py:128-134: status pending,
\* no transcript, no reply, no audio output), no handler running, no call
\* made to an external service.  reply and result are the reply the running
\* invocation has built and the result the last invocation returned;
\* applied is history: the story state the first invocation left.
NewInteraction(said, turn) ==
    [pos |-> "none", invocations |-> 0, last |-> "none", resumed |-> FALSE,
     status |-> "pending", transcript |-> FALSE, assistant_reply |-> FALSE,
     audio_output_path |-> FALSE, audio_file |-> FALSE,
     calls |-> [stt |-> 0, llm |-> 0, mem |-> 0, tts |-> 0],
     said |-> said, turn |-> turn, reply |-> "none", result |-> "none",
     applied |-> [none |-> TRUE]]

\* no voice upload yet
NoInteraction == [NewInteraction(<<>>, 0) EXCEPT !.status = "absent"]

\* Conversation.pending_slots = None
NoSlots == [none |-> TRUE]

\* the Conversation a first upload creates (routes/voice.py:111):
\* pending_intent and pending_slots null.  no_run is history: how many
\* plain "no" answers in a row the story confirmation has been given.
NewConversation ==
    [pending_intent |-> NullStr, pending_slots |-> NoSlots, no_run |-> 0]

\* no API request in progress
NoRequest ==
    [pos |-> "none", interaction |-> NoInteraction, job |-> NoJob,
     row |-> NoRow]

\* TimestampMixin.created_at: the time of the insert
CreatedAt(t) == t

\* uuid.uuid4(): a value no job holds yet
Uuid4(used) == CHOOSE u \in 1..(Cardinality(used) + 1) : u \notin used

\* models/job.py: column defaults of a new Job
NewJob(jt, p, m, t, tid) ==
    [status |-> "pending", job_type |-> jt, payload |-> p, attempts |-> 0,
     max_attempts |-> m, locked_by |-> NullStr, locked_at |-> NullTime,
     run_after |-> t, created_at |-> CreatedAt(t), error |-> NullStr,
     result |-> NullStr, trace_id |-> tid]

Exists(j) == jobs[j].status # "absent"

\* the row is locked by a session other than w's
LockedByOther(w, j) == \E o \in Workers \ {w} : tx[o].job = j

Pow2(n) == 2 ^ n

InitOn(ids) ==
    /\ jobs = [j \in ids |-> NoRow]
    /\ now = 0
    /\ pc = [w \in Workers |-> "idle"]
    /\ cur = [w \in Workers |-> NoJob]
    /\ mem = [w \in Workers |-> NoRow]
    /\ tx = [w \in Workers |-> NoTx]
    /\ txActive = [w \in Workers |-> FALSE]
    /\ expired = [w \in Workers |-> FALSE]
    /\ exc = [w \in Workers |-> NullStr]
    /\ evPending = [w \in Workers |-> FALSE]
    /\ events = {}
    /\ lease = [w \in Workers |-> NoLease]
    /\ hist = [j \in ids |-> [raises |-> 0, clean |-> TRUE, until |-> 0]]
    /\ voice = NoInteraction
    /\ conv = NewConversation
    /\ req = NoRequest

Init == InitOn(JobIds)

\* the clock: time passes, to a later one of the instants observed
Tick ==
    /\ \E t \in Instants :
          /\ t > now
          /\ now' = t
    /\ UNCHANGED <<conv, req, voice, jobs, pc, cur, mem, tx, txActive, expired, exc,
                   evPending, events, lease, hist>>

\* an enqueue that does not pass max_attempts on to the Job
MaxAttemptsIgnored(arg) == DEFAULT_MAX_ATTEMPTS

\* the max_attempts parameter of enqueue, 3 when the caller omits it
MaxAttemptsOf(arg) == IF arg = Omitted THEN DEFAULT_MAX_ATTEMPTS ELSE arg

\* the trace_id values of the jobs stored under ids
TraceIdsOf(ids) == {jobs[k].trace_id : k \in {i \in ids : Exists(i)}}

\* enqueue(), with the commit of the caller's session scope (get_db), on a
\* table that has room for the ids
EnqueueIn(ids, jt, p, arg) ==
    /\ \E j \in ids :
          /\ ~Exists(j)
          /\ \A k \in ids : k < j => Exists(k)
          /\ jobs' = [jobs EXCEPT ![j] =
                        NewJob(jt, p, MaxAttemptsOf(arg), now,
                               Uuid4(TraceIdsOf(ids)))]
    /\ UNCHANGED <<conv, req, voice, now, pc, cur, mem, tx, txActive, expired, exc,
                   evPending, events, lease, hist>>

Enqueue(jt, p, m) == EnqueueIn(JobIds, jt, p, m)

\* a WHERE clause that forgets the status: every row whose run_after passed
EligibleAnyStatus(row, t) == row.run_after <= t

\* a WHERE clause that forgets the stale cutoff: every processing row
EligibleNoCutoff(row, t) ==
    \/ /\ row.status = "pending"
       /\ row.run_after <= t
    \/ row.status = "processing"

\* the WHERE clause of dequeue's SELECT
Eligible(row, t) ==
    \/ /\ row.status = "pending"
       /\ row.run_after <= t
    \/ /\ row.status = "processing"
       /\ row.locked_at # NullTime
       /\ row.locked_at <= t - LOCK_TIMEOUT_SECONDS

\* the SELECT without FOR UPDATE SKIP LOCKED
SelectableNoSkip(w, j) ==
    /\ Exists(j)
    /\ Eligible(jobs[j], now)

\* FOR UPDATE SKIP LOCKED: rows locked by another session are passed over
Selectable(w, j) ==
    /\ Exists(j)
    /\ Eligible(jobs[j], now)
    /\ ~LockedByOther(w, j)

\* a dequeue that drops the job_types filter
TypeMatchesAny(row, job_types) == TRUE

\* if job_types: WHERE job_type IN (job_types); None and [] do not filter
TypeMatches(row, job_types) == job_types = {} \/ row.job_type \in job_types

\* a SELECT that forgets the ORDER BY: any matching row
SelectedUnordered(w, ids, job_types) ==
    {j \in ids : Selectable(w, j) /\ TypeMatches(jobs[j], job_types)}

\* a SELECT that orders before it filters: the oldest unfinished row, or
\* nothing when that row is not eligible
SelectedHeadOfLine(w, ids, job_types) ==
    {j \in ids :
        /\ Selectable(w, j)
        /\ TypeMatches(jobs[j], job_types)
        /\ \A k \in ids :
              jobs[k].status \in {"pending", "processing"}
                  => jobs[j].created_at <= jobs[k].created_at}

\* ORDER BY created_at ASC LIMIT 1 (rows of equal created_at in any order)
SelectedFrom(w, ids, job_types) ==
    {j \in ids :
        /\ Selectable(w, j)
        /\ TypeMatches(jobs[j], job_types)
        /\ \A k \in ids :
              (Selectable(w, k) /\ TypeMatches(jobs[k], job_types))
                  => jobs[j].created_at <= jobs[k].created_at}

\* the SELECT of run_loop's dequeue call, which passes no job_types
Selected(w) == SelectedFrom(w, JobIds, {})

\* a dequeue that forgets job.attempts += 1
ClaimedNoIncrement(row, w, t) ==
    [row EXCEPT !.status = "processing",
                !.locked_by = WORKER_ID(w),
                !.locked_at = t]

\* the assignments of dequeue to the selected row
Claimed(row, w, t) ==
    [row EXCEPT !.status = "processing",
                !.locked_by = WORKER_ID(w),
                !.locked_at = t,
                !.attempts = row.attempts + 1]

Min(a, b) == IF a < b THEN a ELSE b
Max(a, b) == IF a > b THEN a ELSE b

\* history: one more claim cycle of job j ended by the handler raising
\* (counted while every cycle of j has ended so, up to max_attempts + 1)
EndRaise(j) ==
    IF hist[j].clean
    THEN [hist EXCEPT ![j].raises = Min(@ + 1, jobs[j].max_attempts + 1)]
    ELSE hist

\* history: a claim cycle of job j ended otherwise, or overlapped another
EndOther(j) ==
    IF j = NoJob THEN hist
    ELSE [hist EXCEPT ![j].raises = 0, ![j].clean = FALSE]

\* history: the commit of w's session publishes a fail_job re-arm, whose
\* backoff ends at the run_after fail_job computed
Rearmed(h, w) ==
    IF tx[w].job # NoJob /\ tx[w].row.status = "pending"
    THEN [h EXCEPT ![tx[w].job].until = Max(@, tx[w].row.run_after)]
    ELSE h

\* run_loop lines 44-62: open a session, dequeue, look the handler up.
\* dequeue only flushes.  With no handler, fail_job is handed job.id instead
\* of the job, job.attempts raises AttributeError, the exception leaves the
\* session scope without a commit.
DequeueIn(ids, w) ==
    /\ pc[w] = "idle"
    /\ IF SelectedFrom(w, ids, {}) = {}
       THEN UNCHANGED <<pc, cur, mem, tx, txActive, lease, hist>>
       ELSE \E j \in SelectedFrom(w, ids, {}) :
               LET row == Claimed(jobs[j], w, now) IN
               /\ tx' = [tx EXCEPT ![w] = [job |-> j, row |-> row]]
               /\ mem' = [mem EXCEPT ![w] = row]
               /\ cur' = [cur EXCEPT ![w] = j]
               /\ txActive' = [txActive EXCEPT ![w] = TRUE]
               /\ pc' = [pc EXCEPT ![w] =
                           IF row.job_type \in HANDLERS
                           THEN "handler" ELSE "abandoned"]
               /\ lease' = [a \in Workers |->
                              IF a = w
                              THEN [at |-> now, before |-> jobs[j].attempts,
                                    sole |-> TRUE]
                              ELSE IF cur[a] = j
                                   THEN [lease[a] EXCEPT !.sole = FALSE]
                                   ELSE lease[a]]
               /\ hist' = IF \E a \in Workers \ {w} : cur[a] = j
                          THEN EndOther(j) ELSE hist
    /\ UNCHANGED <<conv, req, voice, jobs, now, expired, exc, evPending, events>>

Dequeue(w) == DequeueIn(JobIds, w)

\* a commit that is never issued: the table stays as it was
NotCommitted(w) == jobs

\* Session.commit(): the flushed row image becomes the committed row
Committed(w) ==
    IF tx[w].job = NoJob THEN jobs
    ELSE [jobs EXCEPT ![tx[w].job] = tx[w].row]

\* a loop without the except of line 96: the exception ends run_loop
LoopExits(w) ==
    /\ pc[w] = "abandoned"
    /\ pc' = [pc EXCEPT ![w] = "exited"]
    /\ cur' = [cur EXCEPT ![w] = NoJob]
    /\ mem' = [mem EXCEPT ![w] = NoRow]
    /\ tx' = [tx EXCEPT ![w] = NoTx]
    /\ txActive' = [txActive EXCEPT ![w] = FALSE]
    /\ lease' = [lease EXCEPT ![w] = NoLease]
    /\ hist' = EndOther(cur[w])
    /\ UNCHANGED <<conv, req, voice, jobs, now, expired, exc, evPending, events>>

\* the session of an iteration that an exception left is closed without a
\* commit (get_db: async with session), which rolls its transaction back;
\* run_loop has caught the exception (line 96) and sleeps (line 99)
Finalize(w) ==
    /\ pc[w] = "abandoned"
    /\ pc' = [pc EXCEPT ![w] = "idle"]
    /\ cur' = [cur EXCEPT ![w] = NoJob]
    /\ mem' = [mem EXCEPT ![w] = NoRow]
    /\ tx' = [tx EXCEPT ![w] = NoTx]
    /\ txActive' = [txActive EXCEPT ![w] = FALSE]
    /\ lease' = [lease EXCEPT ![w] = NoLease]
    /\ hist' = EndOther(cur[w])
    /\ UNCHANGED <<conv, req, voice, jobs, now, expired, exc, evPending, events>>

\* the handler issues a statement or changes an entity: a transaction begins
HandlerQuery(w) ==
    /\ pc[w] = "handler"
    /\ ~txActive[w]
    /\ txActive' = [txActive EXCEPT ![w] = TRUE]
    /\ UNCHANGED <<conv, req, voice, jobs, now, pc, cur, mem, tx, expired, exc,
                   evPending, events, lease, hist>>

\* handlers.py checkpoint(): flush and commit inside the handler
HandlerCheckpoint(w) ==
    /\ pc[w] = "handler"
    /\ txActive[w]
    /\ jobs' = Committed(w)
    /\ tx' = [tx EXCEPT ![w] = NoTx]
    /\ txActive' = [txActive EXCEPT ![w] = FALSE]
    /\ UNCHANGED <<conv, req, voice, now, pc, cur, mem, expired, exc, evPending, events,
                   lease, hist>>

\* the row a statement of session w on row j works on
RowSeen(w, j) == IF tx[w].job = j THEN tx[w].row ELSE jobs[j]

\* result or {}: None and the empty dict give the empty dict
ResultOr(r) == IF r \in {"None", "{}"} THEN "{}" ELSE r

\* an UPDATE that leaves locked_by in place
CompletedKeepLock(row, r) ==
    [row EXCEPT !.status = "complete",
                !.result = ResultOr(r),
                !.locked_at = NullTime]

\* an UPDATE ... WHERE status = 'processing': a second call changes nothing
CompletedFirstWins(row, r) ==
    IF row.status = "processing"
    THEN [row EXCEPT !.status = "complete",
                     !.result = ResultOr(r),
                     !.locked_by = NullStr,
                     !.locked_at = NullTime]
    ELSE row

\* the VALUES of complete_job's UPDATE
Completed(row, r) ==
    [row EXCEPT !.status = "complete",
                !.result = ResultOr(r),
                !.locked_by = NullStr,
                !.locked_at = NullTime]

\* run_loop lines 65-67: the handler returns, complete_job's UPDATE ... WHERE
\* id = job_id runs (it waits while another session holds the row)
HandlerReturn(w, r) ==
    /\ pc[w] = "handler"
    /\ ~LockedByOther(w, cur[w])
    /\ tx' = [tx EXCEPT ![w] =
                [job |-> cur[w], row |-> Completed(RowSeen(w, cur[w]), r)]]
    /\ txActive' = [txActive EXCEPT ![w] = TRUE]
    /\ pc' = [pc EXCEPT ![w] = "completing"]
    /\ UNCHANGED <<conv, req, voice, jobs, now, cur, mem, expired, exc, evPending, events,
                   lease, hist>>

\* run_loop line 69: commit after complete_job; the iteration ends
CommitComplete(w) ==
    /\ pc[w] = "completing"
    /\ jobs' = Committed(w)
    /\ tx' = [tx EXCEPT ![w] = NoTx]
    /\ txActive' = [txActive EXCEPT ![w] = FALSE]
    /\ pc' = [pc EXCEPT ![w] = "idle"]
    /\ cur' = [cur EXCEPT ![w] = NoJob]
    /\ mem' = [mem EXCEPT ![w] = NoRow]
    /\ lease' = [lease EXCEPT ![w] = NoLease]
    /\ hist' = EndOther(cur[w])
    /\ UNCHANGED <<conv, req, voice, now, expired, exc, evPending, events>>

\* run_loop lines 71-75: the handler raises, db.rollback().  A rollback of a
\* transaction in progress discards the flushed rows, releases their locks
\* and expires every instance of the session; with no transaction in
\* progress it does nothing.
HandlerRaise(w, msg) ==
    /\ pc[w] = "handler"
    /\ exc' = [exc EXCEPT ![w] = msg]
    /\ tx' = [tx EXCEPT ![w] = NoTx]
    /\ expired' = [expired EXCEPT ![w] = txActive[w]]
    /\ txActive' = [txActive EXCEPT ![w] = FALSE]
    /\ pc' = [pc EXCEPT ![w] = "rolledback"]
    /\ UNCHANGED <<conv, req, voice, jobs, now, cur, mem, evPending, events, lease, hist>>

\* a fail_job whose backoff grows with attempts instead of doubling
FailedLinearBackoff(job, msg, t) ==
    IF job.attempts < job.max_attempts
    THEN [job EXCEPT !.status = "pending",
                     !.run_after = t + job.attempts,
                     !.locked_by = NullStr,
                     !.locked_at = NullTime,
                     !.error = msg]
    ELSE [job EXCEPT !.status = "failed",
                     !.error = msg,
                     !.locked_by = NullStr,
                     !.locked_at = NullTime]

\* a fail_job that gives a retried job a new trace_id
FailedNewTrace(job, msg, t) ==
    IF job.attempts < job.max_attempts
    THEN [job EXCEPT !.status = "pending",
                     !.run_after = t + Pow2(job.attempts),
                     !.locked_by = NullStr,
                     !.locked_at = NullTime,
                     !.error = msg,
                     !.trace_id = 0]
    ELSE [job EXCEPT !.status = "failed",
                     !.error = msg,
                     !.locked_by = NullStr,
                     !.locked_at = NullTime]

\* the assignments of fail_job to the instance it is given
Failed(job, msg, t) ==
    IF job.attempts < job.max_attempts
    THEN [job EXCEPT !.status = "pending",
                     !.run_after = t + Pow2(job.attempts),
                     !.locked_by = NullStr,
                     !.locked_at = NullTime,
                     !.error = msg]
    ELSE [job EXCEPT !.status = "failed",
                     !.error = msg,
                     !.locked_by = NullStr,
                     !.locked_at = NullTime]

\* the UPDATE the flush of fail_job emits: the columns whose value fail_job
\* changed on the instance (before -> after); the others keep the row's value
FailUpdate(row, before, after) ==
    [c \in DOMAIN row |-> IF after[c] # before[c] THEN after[c] ELSE row[c]]

\* what reading job.attempts of an expired instance does: the session loads
\* the row again, or (AsyncSession, no implicit IO) raises MissingGreenlet
RefreshOutcomes == {"reload", "raise"}

\* run_loop lines 78-91: fail_job on the in-memory job, then log_event
FailJob(w) ==
    /\ pc[w] = "rolledback"
    /\ \E o \in (IF expired[w] THEN RefreshOutcomes ELSE {"loaded"}) :
          IF o = "raise"
          THEN /\ pc' = [pc EXCEPT ![w] = "idle"]
               /\ cur' = [cur EXCEPT ![w] = NoJob]
               /\ mem' = [mem EXCEPT ![w] = NoRow]
               /\ exc' = [exc EXCEPT ![w] = NullStr]
               /\ expired' = [expired EXCEPT ![w] = FALSE]
               /\ lease' = [lease EXCEPT ![w] = NoLease]
               /\ hist' = EndRaise(cur[w])
               /\ UNCHANGED <<tx, txActive, evPending>>
          ELSE LET job == IF o = "reload" THEN jobs[cur[w]] ELSE mem[w]
                   upd == Failed(job, exc[w], now)
               IN
               /\ ~LockedByOther(w, cur[w])
               /\ mem' = [mem EXCEPT ![w] = upd]
               /\ tx' = [tx EXCEPT ![w] =
                           [job |-> cur[w],
                            row |-> FailUpdate(jobs[cur[w]], job, upd)]]
               /\ txActive' = [txActive EXCEPT ![w] = TRUE]
               /\ evPending' = [evPending EXCEPT ![w] = TRUE]
               /\ expired' = [expired EXCEPT ![w] = FALSE]
               /\ pc' = [pc EXCEPT ![w] = "failing"]
               /\ UNCHANGED <<cur, exc, lease, hist>>
    /\ UNCHANGED <<conv, req, voice, jobs, now, events>>

\* run_loop line 94: commit of the failure record and the event
CommitFail(w) ==
    /\ pc[w] = "failing"
    /\ jobs' = Committed(w)
    /\ events' = IF evPending[w] THEN events \cup {cur[w]} ELSE events
    /\ tx' = [tx EXCEPT ![w] = NoTx]
    /\ txActive' = [txActive EXCEPT ![w] = FALSE]
    /\ evPending' = [evPending EXCEPT ![w] = FALSE]
    /\ pc' = [pc EXCEPT ![w] = "idle"]
    /\ cur' = [cur EXCEPT ![w] = NoJob]
    /\ mem' = [mem EXCEPT ![w] = NoRow]
    /\ exc' = [exc EXCEPT ![w] = NullStr]
    /\ lease' = [lease EXCEPT ![w] = NoLease]
    /\ hist' = Rearmed(EndRaise(cur[w]), w)
    /\ UNCHANGED <<conv, req, voice, now, expired>>

\* the worker process dies: the server rolls its open transaction back
Crash(w) ==
    /\ pc[w] \in {"handler", "completing", "rolledback", "failing",
                  "abandoned"}
    /\ pc' = [pc EXCEPT ![w] = "crashed"]
    /\ tx' = [tx EXCEPT ![w] = NoTx]
    /\ txActive' = [txActive EXCEPT ![w] = FALSE]
    /\ evPending' = [evPending EXCEPT ![w] = FALSE]
    /\ expired' = [expired EXCEPT ![w] = FALSE]
    /\ exc' = [exc EXCEPT ![w] = NullStr]
    /\ cur' = [cur EXCEPT ![w] = NoJob]
    /\ mem' = [mem EXCEPT ![w] = NoRow]
    /\ lease' = [lease EXCEPT ![w] = NoLease]
    /\ hist' = EndOther(cur[w])
    /\ UNCHANGED <<conv, req, voice, jobs, now, events>>

Next ==
    \/ Tick
    \/ \E jt \in JobTypes, p \in Payloads, m \in {1, MaxMaxAttempts} :
          Enqueue(jt, p, m)
    \/ \E w \in Workers : Dequeue(w)
    \/ \E w \in Workers : Finalize(w)
    \/ \E w \in Workers : HandlerQuery(w)
    \/ \E w \in Workers : HandlerCheckpoint(w)
    \/ \E w \in Workers, r \in Results : HandlerReturn(w, r)
    \/ \E w \in Workers : CommitComplete(w)
    \/ \E w \in Workers, msg \in ErrMsgs : HandlerRaise(w, msg)
    \/ \E w \in Workers : FailJob(w)
    \/ \E w \in Workers : CommitFail(w)
    \/ \E w \in Workers : Crash(w)

Spec == Init /\ [][Next]_vars

\* ------------------------------- the worker loop with storage errors (SpecE)
\* a commit that writes the status and leaves the other columns behind
PartialCommit(w) ==
    IF tx[w].job = NoJob THEN jobs
    ELSE [jobs EXCEPT ![tx[w].job].status = tx[w].row.status]

\* the table after a statement or a commit of session w failed: PostgreSQL
\* applies nothing of a failed statement and nothing of a failed commit
FailedCommit(w) == jobs

\* the store raises inside a queue operation of run_loop or inside a commit:
\*   idle        dequeue (line 45) raises; the exception leaves the session
\*               scope, which holds nothing
\*   handler     complete_job (line 67) raises; caught at line 71, rollback
\*   completing  the commit of line 69 raises; caught at line 71, rollback
\*   rolledback  fail_job or log_event (lines 78-91) raises; the exception
\*               leaves the session scope
\*   failing     the commit of line 94 raises; the exception leaves the
\*               session scope
StorageError(w) ==
    /\ pc[w] \in {"idle", "handler", "completing", "rolledback", "failing"}
    /\ jobs' = FailedCommit(w)
    /\ \E e \in StorageErrors :
          IF pc[w] \in {"handler", "completing"}
          THEN /\ exc' = [exc EXCEPT ![w] = e]
               /\ expired' = [expired EXCEPT ![w] = TRUE]
               /\ txActive' = [txActive EXCEPT ![w] = FALSE]
               /\ pc' = [pc EXCEPT ![w] = "rolledback"]
          ELSE /\ exc' = [exc EXCEPT ![w] = NullStr]
               /\ expired' = [expired EXCEPT ![w] = FALSE]
               /\ txActive' = [txActive EXCEPT ![w] = TRUE]
               /\ pc' = [pc EXCEPT ![w] = "abandoned"]
    /\ tx' = [tx EXCEPT ![w] = NoTx]
    /\ evPending' = [evPending EXCEPT ![w] = FALSE]
    /\ hist' = EndOther(cur[w])
    /\ UNCHANGED <<conv, req, voice, now, cur, mem, events, lease>>

TickE ==
    /\ \E t \in EInstants :
          /\ t > now
          /\ now' = t
    /\ UNCHANGED <<conv, req, voice, jobs, pc, cur, mem, tx, txActive, expired, exc,
                   evPending, events, lease, hist>>

NextE ==
    \/ TickE
    \/ \E jt \in JobTypes, p \in QPayloads, m \in EMaxAttempts :
          Enqueue(jt, p, m)
    \/ \E w \in Workers : Dequeue(w)
    \/ \E w \in Workers : Finalize(w)
    \/ \E w \in Workers : HandlerQuery(w)
    \/ \E w \in Workers : HandlerCheckpoint(w)
    \/ \E w \in Workers, r \in QResults : HandlerReturn(w, r)
    \/ \E w \in Workers : CommitComplete(w)
    \/ \E w \in Workers, msg \in ErrMsgs : HandlerRaise(w, msg)
    \/ \E w \in Workers : FailJob(w)
    \/ \E w \in Workers : CommitFail(w)
    \/ \E w \in Workers : Crash(w)
    \/ \E w \in Workers : StorageError(w)

SpecE == Init /\ [][NextE]_vars

\* the steps run_loop itself takes for worker w: the event loop keeps
\* scheduling the coroutine, and a handler ends by returning or raising
LoopStep(w) ==
    \/ Dequeue(w)
    \/ Finalize(w)
    \/ \E r \in QResults : HandlerReturn(w, r)
    \/ CommitComplete(w)
    \/ \E msg \in ErrMsgs : HandlerRaise(w, msg)
    \/ FailJob(w)
    \/ CommitFail(w)

TickL ==
    /\ \E t \in LInstants :
          /\ t > now
          /\ now' = t
    /\ UNCHANGED <<conv, req, voice, jobs, pc, cur, mem, tx, txActive, expired, exc,
                   evPending, events, lease, hist>>

\* the worker loop without faults of the store or of the process
NextL ==
    \/ TickL
    \/ \E jt \in JobTypes, p \in QPayloads, m \in LMaxAttempts :
          Enqueue(jt, p, m)
    \/ \E w \in Workers : Dequeue(w)
    \/ \E w \in Workers : Finalize(w)
    \/ \E w \in Workers : HandlerQuery(w)
    \/ \E w \in Workers : HandlerCheckpoint(w)
    \/ \E w \in Workers, r \in QResults : HandlerReturn(w, r)
    \/ \E w \in Workers : CommitComplete(w)
    \/ \E w \in Workers, msg \in ErrMsgs : HandlerRaise(w, msg)
    \/ \E w \in Workers : FailJob(w)
    \/ \E w \in Workers : CommitFail(w)

\* every worker is kept running; the UPDATE of fail_job that waits for a
\* row lock is granted it when the holder's transaction ends (PostgreSQL
\* queues lock waiters), hence SF
LoopFair ==
    \A w \in Workers : WF_vars(LoopStep(w)) /\ SF_vars(FailJob(w))

\* ------------------------------ the worker loop on a table of two jobs
\* (SpecJ): the steps of run_loop, jobs of the registered type
InitJ == InitOn(QJobIds)

EnqueueJ(jt, p, m) == EnqueueIn(QJobIds, jt, p, m)

DequeueJ(w) == DequeueIn(QJobIds, w)

NextJ ==
    \/ TickL
    \/ \E p \in QPayloads, m \in LMaxAttempts :
          EnqueueJ("PROCESS_VOICE_INTERACTION", p, m)
    \/ \E w \in Workers : DequeueJ(w)
    \/ \E w \in Workers : HandlerQuery(w)
    \/ \E w \in Workers : HandlerCheckpoint(w)
    \/ \E w \in Workers, r \in QResults : HandlerReturn(w, r)
    \/ \E w \in Workers : CommitComplete(w)
    \/ \E w \in Workers, msg \in ErrMsgs : HandlerRaise(w, msg)
    \/ \E w \in Workers : FailJob(w)
    \/ \E w \in Workers : CommitFail(w)

SpecJ == InitJ /\ [][NextJ]_vars

\* the worker loop with storage errors and crashes, workers kept running
NextLE ==
    \/ NextL
    \/ \E w \in Workers : Crash(w)
    \/ \E w \in Workers : StorageError(w)

FairE == Init /\ [][NextLE]_vars /\ LoopFair

\* the worker loop without faults, workers kept running, time advancing
FairL == Init /\ [][NextL]_vars /\ LoopFair /\ WF_vars(TickL)

\* the worker loop on a job of the registered type that may be retried,
\* workers kept running, time advancing
TickR ==
    /\ \E t \in RInstants :
          /\ t > now
          /\ now' = t
    /\ UNCHANGED <<conv, req, voice, jobs, pc, cur, mem, tx, txActive, expired, exc,
                   evPending, events, lease, hist>>

NextR ==
    \/ TickR
    \/ \E p \in QPayloads, m \in RMaxAttempts :
          Enqueue("PROCESS_VOICE_INTERACTION", p, m)
    \/ \E w \in Workers : Dequeue(w)
    \/ \E w \in Workers : HandlerQuery(w)
    \/ \E w \in Workers : HandlerCheckpoint(w)
    \/ \E w \in Workers, r \in QResults : HandlerReturn(w, r)
    \/ \E w \in Workers : CommitComplete(w)
    \/ \E w \in Workers, msg \in ErrMsgs : HandlerRaise(w, msg)
    \/ \E w \in Workers : FailJob(w)
    \/ \E w \in Workers : CommitFail(w)

FairR == Init /\ [][NextR]_vars /\ LoopFair /\ WF_vars(TickR)

\* ------------------------------------------- the queue functions (SpecQ)
\* jobs/queue.py called by sessions of any caller, on a table of two jobs:
\* a session calls dequeue with any job_types argument, may call
\* complete_job and fail_job on the job it was returned, and ends with a
\* commit or a rollback.  Positions of a session (pc):
\*   idle     no session open
\*   holding  dequeue returned a job
\*   empty    dequeue returned None

InitQ == InitOn(QJobIds)

TickQ ==
    /\ \E t \in QInstants :
          /\ t > now
          /\ now' = t
    /\ UNCHANGED <<conv, req, voice, jobs, pc, cur, mem, tx, txActive, expired, exc,
                   evPending, events, lease, hist>>

EnqueueQ(jt, p, arg) == EnqueueIn(QJobIds, jt, p, arg)

\* dequeue(db, worker_id, job_types)
DequeueQ(w, job_types) ==
    /\ pc[w] = "idle"
    /\ IF SelectedFrom(w, QJobIds, job_types) = {}
       THEN /\ pc' = [pc EXCEPT ![w] = "empty"]
            /\ UNCHANGED <<cur, mem, tx>>
       ELSE \E j \in SelectedFrom(w, QJobIds, job_types) :
               LET row == Claimed(jobs[j], w, now) IN
               /\ tx' = [tx EXCEPT ![w] = [job |-> j, row |-> row]]
               /\ mem' = [mem EXCEPT ![w] = row]
               /\ cur' = [cur EXCEPT ![w] = j]
               /\ pc' = [pc EXCEPT ![w] = "holding"]
    /\ txActive' = [txActive EXCEPT ![w] = TRUE]
    /\ UNCHANGED <<conv, req, voice,
                   jobs, now, expired, exc, evPending, events, lease, hist>>

\* complete_job(db, job.id, r)
CompleteQ(w, r) ==
    /\ pc[w] = "holding"
    /\ tx' = [tx EXCEPT ![w] =
                [job |-> cur[w], row |-> Completed(RowSeen(w, cur[w]), r)]]
    /\ UNCHANGED <<conv, req, voice, jobs, now, pc, cur, mem, txActive, expired, exc,
                   evPending, events, lease, hist>>

\* fail_job(db, job, msg)
FailQ(w, msg) ==
    /\ pc[w] = "holding"
    /\ LET upd == Failed(mem[w], msg, now) IN
       /\ mem' = [mem EXCEPT ![w] = upd]
       /\ tx' = [tx EXCEPT ![w] =
                   [job |-> cur[w],
                    row |-> FailUpdate(RowSeen(w, cur[w]), mem[w], upd)]]
    /\ UNCHANGED <<conv, req, voice, jobs, now, pc, cur, txActive, expired, exc,
                   evPending, events, lease, hist>>

\* the session scope ends normally: commit
CommitQ(w) ==
    /\ pc[w] \in {"holding", "empty"}
    /\ jobs' = Committed(w)
    /\ tx' = [tx EXCEPT ![w] = NoTx]
    /\ txActive' = [txActive EXCEPT ![w] = FALSE]
    /\ pc' = [pc EXCEPT ![w] = "idle"]
    /\ cur' = [cur EXCEPT ![w] = NoJob]
    /\ mem' = [mem EXCEPT ![w] = NoRow]
    /\ UNCHANGED <<conv, req, voice, now, expired, exc, evPending, events, lease, hist>>

\* the session scope ends by an exception: rollback
RollbackQ(w) ==
    /\ pc[w] = "holding"
    /\ tx' = [tx EXCEPT ![w] = NoTx]
    /\ txActive' = [txActive EXCEPT ![w] = FALSE]
    /\ pc' = [pc EXCEPT ![w] = "idle"]
    /\ cur' = [cur EXCEPT ![w] = NoJob]
    /\ mem' = [mem EXCEPT ![w] = NoRow]
    /\ UNCHANGED <<conv, req, voice,
                   jobs, now, expired, exc, evPending, events, lease, hist>>

NextQ ==
    \/ TickQ
    \/ \E jt \in JobTypes, p \in QPayloads, arg \in {Omitted, 1} :
          EnqueueQ(jt, p, arg)
    \/ \E w \in Workers, job_types \in JobTypeFilters : DequeueQ(w, job_types)
    \/ \E w \in Workers, r \in QResults : CompleteQ(w, r)
    \/ \E w \in Workers, msg \in ErrMsgs : FailQ(w, msg)
    \/ \E w \in Workers : CommitQ(w)
    \/ \E w \in Workers : RollbackQ(w)

SpecQ == InitQ /\ [][NextQ]_vars

\* ------------------------------------------ texts and the story intent
\* A text is the sequence of the lower-case words of what the child said
\* (text.strip().lower()).  The substring tests of the code are tests on
\* words and phrases here, which is the same for the words of Utterances.

STORY_INTENT == "bedtime_story"
STORY_TRIGGERS == {"bedtime", "sleep", "night", "story"}
CHARACTER_KEYWORDS == {"bluey", "elsa", "spiderman", "mario", "sonic"}
THEME_KEYWORDS ==
    [space |-> {"space", "stars", "star", "moon", "planet", "rocket",
                "galaxy", "astronaut", "comet"},
     dinosaurs |-> {"dinosaur", "dinosaurs", "t-rex", "trex", "triceratops",
                    "jurassic", "raptor"},
     ocean |-> {"ocean", "sea", "whale", "dolphin", "reef", "fish",
                "mermaid"},
     forest |-> {"forest", "woods", "trees", "owl", "campfire", "cabin"},
     animals |-> {"animal", "puppy", "dog", "cat", "bunny", "bear", "fox",
                  "lion", "tiger"},
     fantasy |-> {"magic", "wizard", "dragon", "princess", "castle", "fairy",
                  "unicorn"},
     robots |-> {"robot", "robots", "machine", "android"}]

\* theme: None
NoTheme == <<>>

\* the number of characters of the words of Utterances
Letters ==
    ("no" :> 2) @@ ("yes" :> 3) @@ ("stop" :> 4) @@ ("about" :> 5) @@
    ("dinosaurs" :> 9) @@ ("tell" :> 4) @@ ("me" :> 2) @@ ("a" :> 1) @@
    ("story" :> 5) @@ ("space" :> 5) @@ ("hello" :> 5)

\* len(t): the letters of the words and one blank between two words
RECURSIVE Chars(_)
Chars(text) ==
    IF text = <<>> THEN 0
    ELSE Letters[Head(text)] + (IF Len(text) > 1 THEN 1 ELSE 0)
             + Chars(Tail(text))

WordsOf(text) == {text[i] : i \in 1..Len(text)}

\* phrase in t
HasPhrase(text, phrase) ==
    \E i \in 1..(Len(text) - Len(phrase) + 1) :
        SubSeq(text, i, i + Len(phrase) - 1) = phrase

\* the words after the first occurrence of word from position lo on, or
\* NoTheme when there is none or nothing follows it
AfterWord(text, word, lo) ==
    IF \E i \in lo..(Len(text) - 1) : text[i] = word
    THEN LET i == CHOOSE k \in lo..(Len(text) - 1) :
                      /\ text[k] = word
                      /\ \A m \in lo..(k - 1) : text[m] # word
         IN SubSeq(text, i + 1, Len(text))
    ELSE NoTheme

\* handlers.py:51-73
is_affirmative(text) ==
    /\ text # <<>>
    /\ \/ text = <<"y">>
       \/ Head(text) \in {"yes", "yeah", "yep", "yup", "sure", "ok", "okay"}
       \/ HasPhrase(text, <<"do", "it">>)
       \/ HasPhrase(text, <<"go", "ahead">>)
       \/ HasPhrase(text, <<"start">>)

\* handlers.py:75-85
is_cancel(text) ==
    \E phrase \in {<<"cancel">>, <<"stop">>, <<"exit">>, <<"quit">>,
                   <<"never", "mind">>, <<"nevermind">>, <<"no", "story">>,
                   <<"not", "a", "story">>, <<"dont", "tell", "a", "story">>,
                   <<"don't", "tell", "a", "story">>,
                   <<"don't", "want", "a", "story">>,
                   <<"dont", "want", "a", "story">>} :
        HasPhrase(text, phrase)

\* handlers.py:87-92
is_plain_no(text) ==
    \/ text \in {<<"no">>, <<"nope">>, <<"nah">>, <<"n">>}
    \/ Len(text) > 1 /\ Head(text) = "no"

\* handlers.py:94-115: "no ... about X", "no i want X" / "no make it X",
\* "actually X" / "wait X"; NoTheme for None
extract_theme_correction(text) ==
    IF text = <<>> THEN NoTheme
    ELSE IF Head(text) = "no" /\ AfterWord(text, "about", 2) # NoTheme
    THEN AfterWord(text, "about", 2)
    ELSE IF /\ Len(text) > 3
            /\ Head(text) = "no"
            /\ SubSeq(text, 2, 3) \in {<<"i", "want">>, <<"make", "it">>,
                                       <<"do", "it">>, <<"let's", "do">>}
    THEN SubSeq(text, 4, Len(text))
    ELSE IF Len(text) > 1 /\ Head(text) \in {"actually", "wait"}
    THEN Tail(text)
    ELSE NoTheme

\* handlers.py:117-123 (the definition the handler uses)
looks_like_story_topic(text) ==
    /\ text # <<>>
    /\ text \notin {<<"yes">>, <<"no">>, <<"ok">>, <<"okay">>}
    /\ Len(text) <= 8

\* ai/intents/story.py:47-53
detect_bedtime_story_request(text) == WordsOf(text) \cap STORY_TRIGGERS # {}

\* the buckets of THEME_KEYWORDS a word of the text falls in
BucketsOf(text) ==
    {k \in DOMAIN THEME_KEYWORDS : WordsOf(text) \cap THEME_KEYWORDS[k] # {}}

\* ai/intents/story.py:74-119: a character, else the raw text when two
\* buckets match, else the bucket, else what follows "about"
extract_theme(text) ==
    IF WordsOf(text) \cap CHARACTER_KEYWORDS # {}
    THEN <<CHOOSE c \in WordsOf(text) \cap CHARACTER_KEYWORDS : TRUE>>
    ELSE IF Cardinality(BucketsOf(text)) >= 2 THEN text
    ELSE IF Cardinality(BucketsOf(text)) = 1
    THEN <<CHOOSE k \in BucketsOf(text) : TRUE>>
    ELSE AfterWord(text, "about", 1)

\* slots with no key set; a key that is not set reads as its default
\* (slots.get): no theme, not awaiting confirmation, no_count 0
EmptySlots ==
    [theme |-> NoTheme, awaiting_confirmation |-> FALSE, no_count |-> 0]

\* conversation.pending_slots or {}
SlotsOr(pending_slots) ==
    IF pending_slots = NoSlots THEN EmptySlots ELSE pending_slots

\* {**slots, **extract_story_slots(text)}: the texts of Utterances name no
\* length and no audience, the theme is the one key extracted
MergedWith(slots, text) ==
    IF extract_theme(text) # NoTheme
    THEN [slots EXCEPT !.theme = extract_theme(text)]
    ELSE slots

\* ai/intents/story.py:212-223: a trigger, and at most 3 characters else
looks_like_story_request(text) ==
    /\ detect_bedtime_story_request(text)
    /\ Chars(SelectSeq(text, LAMBDA w : w \notin STORY_TRIGGERS)) <= 3

\* ai/intents/story.py:226-240 (the later definition, the one in force):
\* the slots normalize_or_fallback_theme may return; random.choice gives
\* any of the default themes
normalize_or_fallback_theme(text, slots) ==
    IF slots.theme # NoTheme THEN {slots}
    ELSE IF looks_like_story_request(text) \/ Chars(text) <= 6
    THEN {[slots EXCEPT !.theme = d] : d \in DefaultThemes}
    ELSE {[slots EXCEPT !.theme = text]}

\* pending_intent and pending_slots both None
StoryCleared(c) ==
    [c EXCEPT !.pending_intent = NullStr, !.pending_slots = NoSlots]

\* handlers.py:237-363, the story routing of one invocation: the outcomes
\* for conversation c, transcript text and the favorite characters favs of
\* the user: the conversation as checkpointed, the reply built (none when
\* the language model is to answer) and goto_llm
Outcome(c, reply, goto_llm) ==
    [conv |-> c, reply |-> reply, goto_llm |-> goto_llm]

StoryRouting(c, text, favs) ==
    LET slots == SlotsOr(c.pending_slots) IN
    IF c.pending_intent = STORY_INTENT
    THEN IF is_cancel(text)
         THEN {Outcome(StoryCleared(c), "no_story", FALSE)}
         ELSE IF slots.awaiting_confirmation
         THEN IF extract_theme_correction(text) # NoTheme
              THEN {Outcome([c EXCEPT !.pending_slots =
                               [slots EXCEPT
                                   !.theme = extract_theme_correction(text),
                                   !.awaiting_confirmation = TRUE,
                                   !.no_count = 0]],
                            "confirm", FALSE)}
              ELSE IF is_affirmative(text)
              THEN {Outcome(StoryCleared(c), "none", TRUE)}
              ELSE IF is_plain_no(text)
              THEN IF slots.no_count + 1 >= 2
                   THEN {Outcome(StoryCleared(c), "stop", FALSE)}
                   ELSE {Outcome([c EXCEPT !.pending_slots =
                                    [slots EXCEPT
                                        !.no_count = slots.no_count + 1,
                                        !.awaiting_confirmation = FALSE]],
                                 "new_topic", FALSE)}
              ELSE IF looks_like_story_topic(text)
              THEN {Outcome([c EXCEPT !.pending_slots =
                               [m EXCEPT !.awaiting_confirmation = TRUE,
                                         !.no_count = 0]],
                            "confirm", FALSE) :
                       m \in normalize_or_fallback_theme(
                                 text, MergedWith(slots, text))}
              ELSE {Outcome(c, "confirm", FALSE)}
         ELSE {IF m.theme = NoTheme
               THEN Outcome([c EXCEPT !.pending_slots = m], "clarify", FALSE)
               ELSE Outcome([c EXCEPT !.pending_slots =
                               [m EXCEPT !.awaiting_confirmation = TRUE]],
                            "confirm", FALSE) :
                  m \in normalize_or_fallback_theme(
                            text, MergedWith(slots, text))}
    ELSE IF detect_bedtime_story_request(text)
         THEN {Outcome([c EXCEPT
                          !.pending_intent = STORY_INTENT,
                          !.pending_slots =
                              [m EXCEPT !.awaiting_confirmation = TRUE,
                                        !.no_count = 0]],
                       "confirm", FALSE) :
                  m \in IF extract_theme(text) # NoTheme
                        THEN {MergedWith(EmptySlots, text)}
                        ELSE IF favs # {}
                        THEN {[EmptySlots EXCEPT !.theme = <<f>>] :
                                 f \in favs}
                        ELSE normalize_or_fallback_theme(text, EmptySlots)}
         ELSE {Outcome(c, "none", TRUE)}

\* --------------------------- handle_process_voice_interaction (SpecH)
\* The interactions of one conversation, uploaded one after the other, and
\* the handler of each, invoked again after an invocation was interrupted.
\* voice holds the committed Interaction columns the handler tests (status,
\* transcript, assistant_reply, audio_output_path, as present or not),
\* whether the audio file is on disk, the position of the running
\* invocation, and the number of calls made to each external step:
\*   stt  transcribe_audio          llm  chat_completion
\*   mem  store_memory, committed   tts  synthesize_speech
\* conv holds pending_intent and pending_slots of the conversation.
\* Emotion detection, which the handler repeats on every invocation, is
\* left out.  Positions: none, entry, transcript, transcribed, route, llm,
\* replied, memory, tts, final.

\* the queue and the workers stand still while the handler is looked at
QueueVars == <<jobs, now, pc, cur, mem, tx, txActive, expired, exc,
               evPending, events, lease, hist>>

Called(step) == [voice.calls EXCEPT ![step] = @ + 1]

\* routes/voice.py create_voice_interaction with the commit of its session
\* scope: the next interaction of the conversation, for the audio of said
Upload(said) ==
    /\ voice.pos = "none"
    /\ voice.status = "absent" \/ voice.last = "returned"
    /\ voice.turn < MaxTurns
    /\ voice' = NewInteraction(said, voice.turn + 1)
    /\ UNCHANGED <<conv, req>>
    /\ UNCHANGED QueueVars

\* run_loop line 65: handler(db, job.payload)
HInvoke ==
    /\ voice.status # "absent"
    /\ voice.pos = "none"
    /\ voice.invocations < MaxInvocations
    /\ voice' = [voice EXCEPT !.pos = "entry",
                              !.invocations = @ + 1,
                              !.reply = "none",
                              !.resumed = (voice.last = "interrupted")]
    /\ UNCHANGED <<conv, req>>
    /\ UNCHANGED QueueVars

\* an entry without the fast return: every invocation marks the interaction
\* processing and goes through the steps
HEntryNoFastPath ==
    /\ voice.pos = "entry"
    /\ voice' = [voice EXCEPT !.pos = "transcript", !.status = "processing"]
    /\ UNCHANGED <<conv, req>>
    /\ UNCHANGED QueueVars

\* lines 174-195: load, return fast (result marked idempotent) when already
\* complete with its audio on disk, else mark processing and checkpoint
HEntry ==
    /\ voice.pos = "entry"
    /\ voice' = IF /\ voice.status = "complete"
                   /\ voice.audio_output_path
                   /\ voice.audio_file
                THEN [voice EXCEPT !.pos = "none", !.last = "returned",
                                   !.result = "idempotent"]
                ELSE [voice EXCEPT !.pos = "transcript",
                                   !.status = "processing"]
    /\ UNCHANGED <<conv, req>>
    /\ UNCHANGED QueueVars

\* lines 198-203: a stored transcript is reused, else transcribe_audio
HTranscribe ==
    /\ voice.pos = "transcript"
    /\ voice' = IF voice.transcript
                THEN [voice EXCEPT !.pos = "route"]
                ELSE [voice EXCEPT !.pos = "transcribed",
                                   !.calls = Called("stt")]
    /\ UNCHANGED <<conv, req>>
    /\ UNCHANGED QueueVars

\* lines 204-205: interaction.transcript = transcript; checkpoint
HTranscriptCommit ==
    /\ voice.pos = "transcribed"
    /\ voice' = [voice EXCEPT !.pos = "route", !.transcript = TRUE]
    /\ UNCHANGED <<conv, req>>
    /\ UNCHANGED QueueVars

\* pending_intent and pending_slots of a conversation
StoryOf(c) ==
    [pending_intent |-> c.pending_intent, pending_slots |-> c.pending_slots]

\* the text is a plain "no" for the story routing: no cancel, no
\* correction, no yes
PlainNoAnswer(text) ==
    /\ is_plain_no(text)
    /\ ~is_cancel(text)
    /\ extract_theme_correction(text) = NoTheme
    /\ ~is_affirmative(text)

\* history: the plain "no" answers in a row, begun while the story waits
\* for its confirmation, each in an interaction handled by one invocation
NoRun(c, text) ==
    IF /\ voice.invocations = 1
       /\ c.pending_intent = STORY_INTENT
       /\ PlainNoAnswer(text)
       /\ SlotsOr(c.pending_slots).awaiting_confirmation \/ c.no_run >= 1
    THEN Min(c.no_run + 1, 3)
    ELSE 0

\* lines 237-363: the story routing on the transcript; each branch that
\* changes the conversation checkpoints it at once
HStory ==
    /\ voice.pos = "route"
    /\ \E favs \in FavoriteLists :
          \E o \in StoryRouting(conv, voice.said, favs) :
             /\ conv' = [o.conv EXCEPT !.no_run = NoRun(conv, voice.said)]
             /\ voice' = [voice EXCEPT
                            !.pos = IF o.goto_llm THEN "llm" ELSE "replied",
                            !.reply = o.reply,
                            !.applied = IF voice.applied = [none |-> TRUE]
                                        THEN StoryOf(o.conv)
                                        ELSE voice.applied]
    /\ UNCHANGED req
    /\ UNCHANGED QueueVars

\* lines 368-409: goto_llm: chat_completion is called whatever the
\* interaction holds (a failure gives the fallback reply); the reply is set
\* on the instance
HReply ==
    /\ voice.pos = "llm"
    /\ voice' = [voice EXCEPT !.pos = "replied", !.reply = "llm",
                              !.calls = Called("llm")]
    /\ UNCHANGED <<conv, req>>
    /\ UNCHANGED QueueVars

\* line 413: the checkpoint that commits interaction.assistant_reply
HReplyCommit ==
    /\ voice.pos = "replied"
    /\ voice' = [voice EXCEPT !.pos = "memory", !.assistant_reply = TRUE]
    /\ UNCHANGED <<conv, req>>
    /\ UNCHANGED QueueVars

\* lines 415-446: extract_memories, store_memory for each, checkpoint: the
\* memories are committed, or the step fails and is skipped (best effort)
HMemory ==
    /\ voice.pos = "memory"
    /\ \E stored \in BOOLEAN :
          voice' = [voice EXCEPT !.pos = "tts",
                                 !.calls = IF stored THEN Called("mem")
                                           ELSE voice.calls]
    /\ UNCHANGED <<conv, req>>
    /\ UNCHANGED QueueVars

\* lines 449-465: synthesize_speech unless the audio file exists; a failure
\* is logged and leaves no file
HSpeech ==
    /\ voice.pos = "tts"
    /\ IF voice.audio_file
       THEN voice' = [voice EXCEPT !.pos = "final"]
       ELSE \E written \in BOOLEAN :
               voice' = [voice EXCEPT !.pos = "final",
                                      !.audio_file = written,
                                      !.calls = Called("tts")]
    /\ UNCHANGED <<conv, req>>
    /\ UNCHANGED QueueVars

\* lines 467-480: audio_output_path, latency, status complete, checkpoint,
\* return
HFinal ==
    /\ voice.pos = "final"
    /\ voice' = [voice EXCEPT !.pos = "none",
                              !.last = "returned",
                              !.result = "done",
                              !.audio_output_path = TRUE,
                              !.status = "complete"]
    /\ UNCHANGED <<conv, req>>
    /\ UNCHANGED QueueVars

\* the invocation ends before it returns: the worker dies, an awaited call
\* raises (transcribe_audio, a checkpoint), or the handler is abandoned;
\* what was not committed is lost
HInterrupt ==
    /\ voice.pos # "none"
    /\ voice' = [voice EXCEPT !.pos = "none", !.last = "interrupted"]
    /\ UNCHANGED <<conv, req>>
    /\ UNCHANGED QueueVars

NextH ==
    \/ \E said \in Utterances : Upload(said)
    \/ HInvoke
    \/ HEntry
    \/ HTranscribe
    \/ HTranscriptCommit
    \/ HStory
    \/ HReply
    \/ HReplyCommit
    \/ HMemory
    \/ HSpeech
    \/ HFinal
    \/ HInterrupt

SpecH == Init /\ [][NextH]_vars

\* ------------- the voice upload, its job and the worker loop (SpecV)
\* routes/voice.py create_voice_interaction in the session scope of get_db,
\* and run_loop with handle_process_voice_interaction as the handler.
\* Positions of the request (req.pos): none, interaction, enqueued, logged.
\* Positions of a worker inside the handler (pc): handler (invoked),
\* working (past the checkpoint of line 195), returning.

\* an enqueue that commits: the row is in the table at once
EnqueueCommitted(j, row) == [jobs EXCEPT ![j] = row]

\* enqueue lines 33-34: db.add(job), flush.  The INSERT runs in the
\* caller's transaction: the table other sessions read stays as it was
EnqueueFlushed(j, row) == jobs

\* voice.py lines 127-136: the Interaction is added and flushed
ReqInteraction(said) ==
    /\ req.pos = "none"
    /\ voice.status = "absent"
    /\ req' = [req EXCEPT !.pos = "interaction",
                          !.interaction = NewInteraction(said, 1)]
    /\ UNCHANGED <<voice, conv>>
    /\ UNCHANGED QueueVars

\* voice.py lines 139-147: enqueue(db, "PROCESS_VOICE_INTERACTION", payload)
ReqEnqueue(p) ==
    /\ req.pos = "interaction"
    /\ \E j \in JobIds :
          LET row == NewJob("PROCESS_VOICE_INTERACTION", p,
                            MaxAttemptsOf(Omitted), now,
                            Uuid4(TraceIdsOf(JobIds)))
          IN
          /\ ~Exists(j)
          /\ \A k \in JobIds : k < j => Exists(k)
          /\ req' = [req EXCEPT !.pos = "enqueued", !.job = j, !.row = row]
          /\ jobs' = EnqueueFlushed(j, row)
    /\ UNCHANGED <<voice, conv, now, pc, cur, mem, tx, txActive, expired, exc,
                   evPending, events, lease, hist>>

\* voice.py lines 149-155: log_event adds the event and flushes
ReqLogEvent ==
    /\ req.pos = "enqueued"
    /\ req' = [req EXCEPT !.pos = "logged"]
    /\ UNCHANGED <<voice, conv>>
    /\ UNCHANGED QueueVars

\* session.py line 28: the route returned, session.commit(): the
\* interaction and the job are committed by one transaction
ReqCommit ==
    /\ req.pos = "logged"
    /\ jobs' = [jobs EXCEPT ![req.job] = req.row]
    /\ voice' = req.interaction
    /\ req' = NoRequest
    /\ UNCHANGED <<conv, now, pc, cur, mem, tx, txActive, expired, exc,
                   evPending, events, lease, hist>>

\* session.py lines 29-31: an exception in the route or in the commit,
\* session.rollback(): what the request flushed is discarded
ReqFail ==
    /\ req.pos \in {"interaction", "enqueued", "logged"}
    /\ req' = NoRequest
    /\ UNCHANGED <<voice, conv>>
    /\ UNCHANGED QueueVars

\* the interaction is complete with its audio on disk
AlreadyComplete ==
    /\ voice.status = "complete"
    /\ voice.audio_output_path
    /\ voice.audio_file

\* handlers.py lines 174-195 in run_loop: the interaction is loaded; when it
\* is already complete the handler returns, else it is marked processing and
\* the checkpoint commits it, and with it the claim dequeue flushed
VoiceEntry(w) ==
    /\ pc[w] = "handler"
    /\ voice.status # "absent"
    /\ IF AlreadyComplete
       THEN /\ pc' = [pc EXCEPT ![w] = "returning"]
            /\ UNCHANGED <<voice, jobs, tx, txActive>>
       ELSE /\ voice' = [voice EXCEPT !.status = "processing"]
            /\ jobs' = Committed(w)
            /\ tx' = [tx EXCEPT ![w] = NoTx]
            /\ txActive' = [txActive EXCEPT ![w] = FALSE]
            /\ pc' = [pc EXCEPT ![w] = "working"]
    /\ UNCHANGED <<conv, req, now, cur, mem, expired, exc, evPending, events,
                   lease, hist>>

\* handlers.py lines 197-476: transcript, story routing, reply, memories,
\* speech (a failure leaves no file), then status complete and the
\* checkpoint that commits it
VoiceFinish(w) ==
    /\ pc[w] = "working"
    /\ \E favs \in FavoriteLists, written \in BOOLEAN :
          \E o \in StoryRouting(conv, voice.said, favs) :
             /\ conv' = [o.conv EXCEPT !.no_run = conv.no_run]
             /\ voice' = [voice EXCEPT
                            !.status = "complete",
                            !.transcript = TRUE,
                            !.assistant_reply = TRUE,
                            !.audio_output_path = TRUE,
                            !.audio_file = (voice.audio_file \/ written),
                            !.reply = IF o.goto_llm THEN "llm" ELSE o.reply]
    /\ pc' = [pc EXCEPT ![w] = "returning"]
    /\ UNCHANGED <<req, jobs, now, cur, mem, tx, txActive, expired, exc,
                   evPending, events, lease, hist>>

\* run_loop lines 65-67: the handler returned its dict, complete_job's
\* UPDATE runs (it waits while another session holds the row)
VoiceReturn(w, r) ==
    /\ pc[w] = "returning"
    /\ ~LockedByOther(w, cur[w])
    /\ tx' = [tx EXCEPT ![w] =
                [job |-> cur[w], row |-> Completed(RowSeen(w, cur[w]), r)]]
    /\ txActive' = [txActive EXCEPT ![w] = TRUE]
    /\ pc' = [pc EXCEPT ![w] = "completing"]
    /\ UNCHANGED <<conv, req, voice, jobs, now, cur, mem, expired, exc,
                   evPending, events, lease, hist>>

\* run_loop lines 71-75: the handler raises (the interaction is not found,
\* an awaited call or a checkpoint fails), db.rollback().  Before the
\* checkpoint of line 195 the transaction of the claim is in progress;
\* after it one is in progress when the handler has issued a statement
\* since its last checkpoint.  What the interaction had committed stays.
VoiceRaise(w, msg) ==
    /\ pc[w] \in {"handler", "working"}
    /\ \E active \in (IF pc[w] = "handler" THEN {TRUE} ELSE BOOLEAN) :
          expired' = [expired EXCEPT ![w] = active]
    /\ exc' = [exc EXCEPT ![w] = msg]
    /\ tx' = [tx EXCEPT ![w] = NoTx]
    /\ txActive' = [txActive EXCEPT ![w] = FALSE]
    /\ pc' = [pc EXCEPT ![w] = "rolledback"]
    /\ UNCHANGED <<conv, req, voice, jobs, now, cur, mem, evPending, events,
                   lease, hist>>

TickV ==
    /\ \E t \in VInstants :
          /\ t > now
          /\ now' = t
    /\ UNCHANGED <<conv, req, voice, jobs, pc, cur, mem, tx, txActive, expired,
                   exc, evPending, events, lease, hist>>

\* the steps of the request
ReqStep ==
    \/ \E said \in VUtterances : ReqInteraction(said)
    \/ \E p \in QPayloads : ReqEnqueue(p)
    \/ ReqLogEvent
    \/ ReqCommit
    \/ ReqFail

\* the steps run_loop takes for worker w with the voice handler
LoopStepV(w) ==
    \/ Dequeue(w)
    \/ VoiceEntry(w)
    \/ VoiceFinish(w)
    \/ \E r \in QResults : VoiceReturn(w, r)
    \/ CommitComplete(w)
    \/ \E msg \in ErrMsgs : VoiceRaise(w, msg)
    \/ FailJob(w)
    \/ CommitFail(w)

NextV ==
    \/ TickV
    \/ \E said \in VUtterances : ReqInteraction(said)
    \/ \E p \in QPayloads : ReqEnqueue(p)
    \/ ReqLogEvent
    \/ ReqCommit
    \/ ReqFail
    \/ \E w \in Workers : Dequeue(w)
    \/ \E w \in Workers : VoiceEntry(w)
    \/ \E w \in Workers : VoiceFinish(w)
    \/ \E w \in Workers, r \in QResults : VoiceReturn(w, r)
    \/ \E w \in Workers : CommitComplete(w)
    \/ \E w \in Workers, msg \in ErrMsgs : VoiceRaise(w, msg)
    \/ \E w \in Workers : FailJob(w)
    \/ \E w \in Workers : CommitFail(w)

SpecV == Init /\ [][NextV]_vars

\* the request runs to its end, every worker is kept running (the UPDATE of
\* fail_job is granted the row lock it waits for), time advances
FairV ==
    /\ Init /\ [][NextV]_vars
    /\ WF_vars(ReqStep)
    /\ \A w \in Workers : WF_vars(LoopStepV(w)) /\ SF_vars(FailJob(w))
    /\ WF_vars(TickV)

\* ------------------------------------------------- what the runtime emits
\* dequeue's logger.info: "Worker %s claimed job %s [%s] trace=%s"
ClaimLog(worker_id, job_id, job) ==
    [worker_id |-> worker_id, job_id |-> job_id,
     job_type |-> job.job_type, trace_id |-> job.trace_id]

\* complete_job's logger.info: "Job %s completed"
CompleteLog(job_id) == [job_id |-> job_id]

\* the Event run_loop hands to log_event after fail_job: event_type, level,
\* source and the metadata job_id, job_type, error
JobFailedEvent(job_id, job, error) ==
    [event_type |-> "job_failed", level |-> "error", source |-> "worker",
     job_id |-> job_id, job_type |-> job.job_type, error |-> error]

\* ------------------------------------------------------------ properties

\* the worker is inside a claim cycle: dequeue returned a job to it and its
\* complete_job / fail_job transition is not committed yet
InCycle(w) == pc[w] \in {"handler", "completing", "rolledback", "failing"}

\* dequeue has just returned a job to w in this step
DequeueReturns(w) == pc[w] = "idle" /\ pc'[w] \in {"handler", "abandoned"}

\* C1: concurrent dequeue calls never return the same job: at no instant do
\* two sessions hold the same row, and a job one worker's open dequeue
\* transaction holds is not selectable by any other worker.
C1_NoDoubleClaim ==
    \A a \in Workers, b \in Workers :
        (a # b /\ tx[a].job # NoJob) =>
            /\ tx[b].job # tx[a].job
            /\ tx[a].job \notin Selected(b)

\* C1 witness: a job that is eligible by its committed row is held by the
\* open dequeue transaction of one worker while another worker polls.
C1_Witness ==
    \E a \in Workers, b \in Workers :
        /\ a # b
        /\ pc[a] = "handler"
        /\ tx[a].job # NoJob
        /\ Eligible(jobs[tx[a].job], now)
        /\ pc[b] = "idle"

\* C2: lease exclusivity over the whole worker cycle: while worker a is
\* between the return of its dequeue and the commit of its complete_job /
\* fail_job, no other worker holds a claim of the same job made less than
\* LOCK_TIMEOUT_SECONDS after a's claim.
C2_LeaseExclusive ==
    \A a \in Workers, b \in Workers :
        (/\ a # b
         /\ InCycle(a)
         /\ InCycle(b)
         /\ cur[a] = cur[b]
         /\ lease[a].at <= lease[b].at)
        => lease[b].at >= lease[a].at + LOCK_TIMEOUT_SECONDS

\* C3: in every committed state of the job table, status processing goes
\* with locked_by and locked_at both set, every other status with both null.
C3_LockFieldsMatchStatus ==
    \A j \in JobIds :
        Exists(j) =>
            IF jobs[j].status = "processing"
            THEN jobs[j].locked_by # NullStr /\ jobs[j].locked_at # NullTime
            ELSE jobs[j].locked_by = NullStr /\ jobs[j].locked_at = NullTime

\* C3 witness: a job is committed as processing under worker b's lease while
\* worker a, whose lease was taken over, is still in its cycle on that job.
C3_Witness ==
    \E a \in Workers, b \in Workers :
        /\ a # b
        /\ InCycle(a)
        /\ jobs[cur[a]].status = "processing"
        /\ jobs[cur[a]].locked_by = WORKER_ID(b)

\* C4: a job whose status is complete or failed is never returned by
\* dequeue.
C4_TerminalNeverClaimed ==
    [][\A w \in Workers :
          DequeueReturns(w) =>
              jobs[cur'[w]].status \notin {"complete", "failed"}]_vars

\* C4 witness: a failed job whose run_after has passed, a full lease timeout
\* later, with a worker polling.
C4_Witness ==
    \E j \in JobIds, w \in Workers :
        /\ jobs[j].status \in {"complete", "failed"}
        /\ jobs[j].run_after + LOCK_TIMEOUT_SECONDS <= now
        /\ pc[w] = "idle"

\* the status changes the lifecycle allows
AllowedTransitions ==
    {<<"pending", "processing">>, <<"processing", "complete">>,
     <<"processing", "pending">>, <<"processing", "failed">>}

\* C5: every status change an operation makes to the row it works on is
\* pending -> processing, processing -> complete, processing -> pending or
\* processing -> failed; nothing moves a job out of complete or failed.
C5_OnlyLifecycleTransitions ==
    [][\A w \in Workers :
          (tx'[w] # tx[w] /\ tx'[w].job # NoJob) =>
              LET old == RowSeen(w, tx'[w].job).status
                  new == tx'[w].row.status
              IN old = new \/ <<old, new>> \in AllowedTransitions]_vars

\* C6: stale-lease recovery: when worker a has claimed a job and neither
\* completed nor failed it, LOCK_TIMEOUT_SECONDS have passed since its claim
\* and nobody else has claimed the job since, a dequeue by worker b returns
\* the job, with attempts 2 above the value before a's claim.
C6_StaleLeaseRecovered ==
    \A a \in Workers, b \in Workers :
        (/\ a # b
         /\ pc[a] = "handler"
         /\ lease[a].sole
         /\ lease[a].at + LOCK_TIMEOUT_SECONDS <= now
         /\ pc[b] = "idle")
        => /\ cur[a] \in Selected(b)
           /\ Claimed(jobs[cur[a]], b, now).attempts = lease[a].before + 2

\* C7: a job with max_attempts = M whose handler raised in every claim
\* cycle is, after exactly M claim cycles, failed with attempts = M and the
\* error of the last failure.
C7_FailedAfterMaxCycles ==
    \A j \in JobIds :
        (/\ Exists(j)
         /\ hist[j].clean
         /\ hist[j].raises = jobs[j].max_attempts
         /\ \A w \in Workers : cur[w] # j)
        => /\ jobs[j].status = "failed"
           /\ jobs[j].attempts = jobs[j].max_attempts
           /\ jobs[j].error \in ErrMsgs

\* the step that ends a claim cycle in which the handler raised
RaiseCycleEnds(w) == pc[w] \in {"rolledback", "failing"} /\ pc'[w] = "idle"

\* C8: a worker cycle in which the handler raises consumes exactly one
\* attempt: when the cycle ends, with no other claim of the job in between,
\* the stored attempts is the value before the claim plus 1.
C8_RaiseConsumesOneAttempt ==
    [][\A w \in Workers :
          (RaiseCycleEnds(w) /\ lease[w].sole) =>
              jobs'[cur[w]].attempts = lease[w].before + 1]_vars

\* C9: a claimed job whose job_type has no handler goes through the fail
\* path in the same cycle: when the cycle ends the error is stored, the lock
\* is cleared and the attempt is consumed.
C9_UnknownTypeFailed ==
    [][\A w \in Workers :
          (/\ pc[w] \in {"abandoned", "failing"}
           /\ pc'[w] = "idle"
           /\ jobs[cur[w]].job_type \notin HANDLERS
           /\ lease[w].sole)
          => /\ jobs'[cur[w]].error # NullStr
             /\ jobs'[cur[w]].status \in {"pending", "failed"}
             /\ jobs'[cur[w]].locked_by = NullStr
             /\ jobs'[cur[w]].attempts = lease[w].before + 1]_vars

\* C10: the changes of a successful dequeue (status processing, locked_by,
\* locked_at = now, attempts + 1) are committed when dequeue returns the job.
C10_ClaimCommittedOnReturn ==
    [][\A w \in Workers :
          DequeueReturns(w) =>
              /\ jobs'[cur'[w]].status = "processing"
              /\ jobs'[cur'[w]].locked_by = WORKER_ID(w)
              /\ jobs'[cur'[w]].locked_at = now
              /\ jobs'[cur'[w]].attempts = jobs[cur'[w]].attempts + 1]_vars

\* the job fail_job is handed at run_loop line 78: the in-memory instance,
\* or, once a rollback expired it, what the row holds
Given(w) == IF expired[w] THEN jobs[cur[w]] ELSE mem[w]

\* fail_job has just been called by w in this step
FailJobCalled(w) == pc[w] = "rolledback" /\ pc'[w] \in {"failing", "idle"}

\* the row of w's job as w's session sees it after the step
RowAfter(w) ==
    IF tx'[w].job = cur[w] THEN tx'[w].row ELSE jobs'[cur[w]]

\* C11: a call of fail_job moves the job to failed if and only if its
\* attempts >= max_attempts at the time of the call, storing the error,
\* clearing locked_by and locked_at and leaving run_after as it was; with
\* attempts < max_attempts the call leaves the job pending.
C11_FailedIffExhausted ==
    [][\A w \in Workers :
          FailJobCalled(w) =>
              LET job == Given(w)
                  old == jobs[cur[w]]
                  new == RowAfter(w)
              IN IF job.attempts >= job.max_attempts
                 THEN /\ new.status = "failed"
                      /\ new.error = exc[w]
                      /\ new.locked_by = NullStr
                      /\ new.locked_at = NullTime
                      /\ new.run_after = old.run_after
                 ELSE new.status = "pending"]_vars

\* the part of C11 on the committed table: a job with status failed has
\* attempts >= max_attempts
C11_FailedImpliesExhausted ==
    \A j \in JobIds :
        jobs[j].status = "failed" => jobs[j].attempts >= jobs[j].max_attempts

\* the part of C11 on the calls of fail_job that return
C11_ReturnedCallsBranch ==
    [][\A w \in Workers :
          (pc[w] = "rolledback" /\ pc'[w] = "failing") =>
              LET job == Given(w)
                  old == jobs[cur[w]]
                  new == tx'[w].row
              IN IF job.attempts >= job.max_attempts
                 THEN /\ new.status = "failed"
                      /\ new.error = exc[w]
                      /\ new.locked_by = NullStr
                      /\ new.locked_at = NullTime
                      /\ new.run_after = old.run_after
                 ELSE new.status = "pending"]_vars

\* fail_job has returned to w in this step
FailJobReturns(w) == pc[w] = "rolledback" /\ pc'[w] = "failing"

ClaimEligible(row, t) ==
    \/ row.status = "pending" /\ row.run_after <= t
    \/ /\ row.status = "processing"
       /\ row.locked_at # NullTime
       /\ row.locked_at + LOCK_TIMEOUT_SECONDS <= t

\* C13: when dequeue returns a job, that job is eligible, and no other
\* eligible job that is not locked by another session and matches the type
\* filter has a strictly earlier created_at.
C13_EarliestEligible ==
    [][\A w \in Workers, job_types \in JobTypeFilters :
          (DequeueQ(w, job_types) /\ pc'[w] = "holding") =>
              LET j == cur'[w] IN
              /\ ClaimEligible(jobs[j], now)
              /\ \A k \in QJobIds \ {j} :
                    (/\ jobs[k].status # "absent"
                     /\ ClaimEligible(jobs[k], now)
                     /\ ~LockedByOther(w, k)
                     /\ (job_types = {} \/ jobs[k].job_type \in job_types))
                    => ~(jobs[k].created_at < jobs[j].created_at)]_vars

\* C13 witness: dequeue has just returned the older of two eligible,
\* unlocked jobs.
C13_Witness ==
    \E w \in Workers, k \in QJobIds :
        /\ pc[w] = "holding"
        /\ tx[w].row.locked_at = now
        /\ k # cur[w]
        /\ jobs[k].status # "absent"
        /\ ClaimEligible(jobs[k], now)
        /\ ClaimEligible(jobs[cur[w]], now)
        /\ ~LockedByOther(w, k)
        /\ jobs[cur[w]].created_at < jobs[k].created_at

\* the first half of C14: a job that dequeue returns from pending had
\* run_after <= now
C14_PendingNotEarly ==
    [][\A w \in Workers :
          (DequeueReturns(w) /\ jobs[cur'[w]].status = "pending") =>
              jobs[cur'[w]].run_after <= now]_vars

\* C14: a pending job is never claimed before its run_after, and a job
\* re-armed by fail_job with attempts = a is not claimed during the 2^a
\* seconds following the failure.
C14_NotBeforeRunAfter ==
    [][\A w \in Workers :
          DequeueReturns(w) =>
              LET j == cur'[w] IN
              /\ jobs[j].status = "pending" => jobs[j].run_after <= now
              /\ hist[j].until <= now]_vars

\* C15: the stored attempts of a job never decreases and changes only by
\* the write of a successful dequeue, which raises it by exactly 1: enqueue
\* creates the job with attempts = 0, and the writes of complete_job and
\* fail_job leave attempts as they found it.
C15_AttemptsOnlyByDequeue ==
    [][/\ \A j \in JobIds :
             IF jobs[j].status = "absent"
             THEN jobs'[j].status # "absent" => jobs'[j].attempts = 0
             ELSE \/ jobs'[j].attempts = jobs[j].attempts
                  \/ /\ jobs'[j].attempts = jobs[j].attempts + 1
                     /\ \E w \in Workers :
                           /\ tx[w].job = j
                           /\ tx'[w].job = NoJob
                           /\ lease[w].before = jobs[j].attempts
       /\ \A w \in Workers :
             (tx'[w] # tx[w] /\ tx'[w].job # NoJob) =>
                 LET j == tx'[w].job
                     before == RowSeen(w, j).attempts
                     after == tx'[w].row.attempts
                 IN IF DequeueReturns(w)
                    THEN after = before + 1
                    ELSE after = before]_vars

\* C15 witness: a job claimed twice has been through fail_job or
\* complete_job and its stored attempts is 2.
C15_Witness ==
    \E j \in JobIds :
        /\ jobs[j].status \in {"pending", "complete", "failed"}
        /\ jobs[j].attempts = 2
        /\ jobs[j].locked_by = NullStr

C17_SuccessCycle ==
    [][\A w \in Workers :
          /\ \A r \in Results :
                (HandlerReturn(w, r) /\ lease[w].before = 0 /\ lease[w].sole)
                    => /\ tx'[w].row.result = r
                       /\ tx'[w].row.attempts = 1
          /\ (/\ pc[w] = "completing"
              /\ pc'[w] = "idle"
              /\ lease[w].before = 0
              /\ lease[w].sole)
             => /\ jobs'[cur[w]].status = "complete"
                /\ jobs'[cur[w]].result = tx[w].row.result
                /\ jobs'[cur[w]].result \in Results
                /\ jobs'[cur[w]].attempts = 1
                /\ jobs'[cur[w]].locked_by = NullStr
                /\ jobs'[cur[w]].locked_at = NullTime
                /\ jobs'[cur[w]].job_type \in HANDLERS]_vars

\* C17 witness: the cycle has ended: the job is stored complete with the
\* handler's result after a single claim and no worker holds it.
C17_Witness ==
    \E j \in JobIds :
        /\ jobs[j].status = "complete"
        /\ jobs[j].result = "r2"
        /\ jobs[j].attempts = 1
        /\ \A w \in Workers : pc[w] = "idle"

\* C18: enqueue(job_type, payload, max_attempts) adds exactly one job
\* record, with status pending, attempts 0, locked_by and locked_at null,
\* run_after = the enqueue time, the given max_attempts (3 when omitted)
\* and a trace_id no other job has; it changes no other job and leaves
\* every session (claims, held jobs) as it was.
C18_EnqueueAddsOnePending ==
    [][\A jt \in JobTypes, p \in QPayloads, arg \in {Omitted, 1} :
          EnqueueQ(jt, p, arg) =>
              /\ \E j \in QJobIds :
                    /\ jobs[j].status = "absent"
                    /\ jobs'[j].status = "pending"
                    /\ jobs'[j].job_type = jt
                    /\ jobs'[j].payload = p
                    /\ jobs'[j].attempts = 0
                    /\ jobs'[j].locked_by = NullStr
                    /\ jobs'[j].locked_at = NullTime
                    /\ jobs'[j].run_after = now
                    /\ jobs'[j].max_attempts = IF arg = Omitted THEN 3 ELSE arg
                    /\ jobs'[j].error = NullStr
                    /\ jobs'[j].result = NullStr
                    /\ \A k \in QJobIds \ {j} :
                          /\ jobs'[k] = jobs[k]
                          /\ jobs[k].status # "absent"
                                => jobs[k].trace_id # jobs'[j].trace_id
              /\ UNCHANGED <<pc, cur, mem, tx, txActive>>]_vars

\* C18 witness: a second job has just been enqueued without max_attempts
\* beside a job that a session has claimed.
C18_Witness ==
    /\ jobs[1].status = "processing"
    /\ jobs[2].status = "pending"
    /\ jobs[2].attempts = 0
    /\ jobs[2].max_attempts = 3
    /\ jobs[2].run_after = now
    /\ jobs[2].created_at > jobs[1].created_at
    /\ jobs[2].trace_id # jobs[1].trace_id

\* C19: given a non-empty job_types list, dequeue returns only a job whose
\* job_type is in the list, returns None when no eligible job of those
\* types exists, even if eligible jobs of other types do, and leaves the
\* jobs of other types unchanged.
C19_TypeFilter ==
    [][\A w \in Workers, job_types \in JobTypeFilters \ {{}} :
          DequeueQ(w, job_types) =>
              /\ pc'[w] = "holding" => jobs[cur'[w]].job_type \in job_types
              /\ (~ \E k \in QJobIds :
                       /\ jobs[k].status # "absent"
                       /\ ClaimEligible(jobs[k], now)
                       /\ jobs[k].job_type \in job_types)
                 => /\ pc'[w] = "empty"
                    /\ tx'[w] = tx[w]
              /\ \A k \in QJobIds :
                    (jobs[k].status # "absent"
                        /\ jobs[k].job_type \notin job_types)
                    => /\ jobs'[k] = jobs[k]
                       /\ tx'[w].job # k]_vars

\* C19 witness: an eligible, unlocked job of a type outside the list is in
\* the table and a dequeue for the other type returns None.
C19_Witness ==
    \E w \in Workers, k \in QJobIds :
        /\ pc[w] = "idle"
        /\ jobs[k].status # "absent"
        /\ ClaimEligible(jobs[k], now)
        /\ ~LockedByOther(w, k)
        /\ jobs[k].job_type = "UNKNOWN_TYPE"
        /\ ENABLED (/\ DequeueQ(w, {"PROCESS_VOICE_INTERACTION"})
                    /\ pc'[w] = "empty")

\* C20: when no job is eligible, dequeue returns None and leaves every job
\* record, stored or held by a session, unchanged.
C20_NoneLeavesUnchanged ==
    [][\A w \in Workers, job_types \in JobTypeFilters :
          (/\ DequeueQ(w, job_types)
           /\ ~ \E k \in QJobIds :
                   jobs[k].status # "absent" /\ ClaimEligible(jobs[k], now))
          => /\ pc'[w] = "empty"
             /\ jobs' = jobs
             /\ tx' = tx
             /\ mem' = mem
             /\ cur' = cur]_vars

\* C20 witness: the table holds a processing job whose lease is fresh and
\* a pending job whose run_after is ahead, nothing is eligible, and a
\* dequeue returns None.
C20_Witness ==
    \E w \in Workers :
        /\ pc[w] = "idle"
        /\ \E k \in QJobIds : jobs[k].status = "processing"
        /\ \E k \in QJobIds : jobs[k].status = "pending"
        /\ ~ \E k \in QJobIds :
                jobs[k].status # "absent" /\ ClaimEligible(jobs[k], now)
        /\ ENABLED (DequeueQ(w, {}) /\ pc'[w] = "empty")

\* the columns enqueue assigns and no queue function writes
FrameOf(row) ==
    [c \in {"job_type", "payload", "max_attempts", "created_at", "trace_id"}
        |-> row[c]]

\* C21: dequeue, complete_job and fail_job never modify a job's id,
\* job_type, payload, max_attempts, created_at or trace_id: every stored row
\* stays under its id with these columns as they were, and the row image
\* each session writes and the instance each worker holds carry the values
\* of the stored row of that id.
C21_EnqueueFieldsStable ==
    [][/\ \A j \in JobIds :
             jobs[j].status # "absent" =>
                 /\ jobs'[j].status # "absent"
                 /\ FrameOf(jobs'[j]) = FrameOf(jobs[j])
       /\ \A w \in Workers :
             /\ tx'[w].job # NoJob =>
                   FrameOf(tx'[w].row) = FrameOf(jobs[tx'[w].job])
             /\ mem'[w].status # "absent" =>
                   FrameOf(mem'[w]) = FrameOf(jobs[cur'[w]])]_vars

\* C21 witness: a job enqueued with payload p2 has been retried (its error
\* is stored, attempts >= 2) and is now held by a worker whose lease another
\* worker has taken over.
C21_Witness ==
    \E a \in Workers, b \in Workers :
        /\ a # b
        /\ InCycle(a)
        /\ jobs[cur[a]].status = "processing"
        /\ jobs[cur[a]].locked_by = WORKER_ID(b)
        /\ jobs[cur[a]].error # NullStr
        /\ jobs[cur[a]].attempts >= 2
        /\ jobs[cur[a]].payload = "p2"
        /\ jobs[cur[a]].trace_id = 1

\* C22: when a handler raises inside the worker loop, what its session had
\* flushed and not committed is discarded, and when the cycle ends fail_job
\* has stored the captured error, the job is not left processing, and a
\* job_failed record of the job is committed.
C22_HandlerFailureRecorded ==
    [][\A w \in Workers :
          /\ (pc[w] = "handler" /\ pc'[w] = "rolledback") =>
                 /\ tx'[w] = NoTx
                 /\ exc'[w] \in ErrMsgs
          /\ (RaiseCycleEnds(w) /\ lease[w].sole) =>
                 /\ jobs'[cur[w]].error = exc[w]
                 /\ jobs'[cur[w]].status # "processing"
                 /\ cur[w] \in events']_vars

C24_LoopSurvivesExceptions ==
    \A w \in Workers :
        (pc[w] \in {"rolledback", "failing", "abandoned"})
            ~> (pc[w] \in {"idle", "crashed"})

\* C24 witness: fail_job, log_event or the commit of line 94 has raised a
\* storage error on a job of a registered type and the exception has left
\* the session scope.
C24_Witness ==
    \E w \in Workers :
        /\ pc[w] = "abandoned"
        /\ cur[w] # NoJob
        /\ jobs[cur[w]].job_type \in HANDLERS

\* C25: a worker handles jobs one at a time: it makes a dequeue call only
\* from the top of the loop, and at no instant does more than one job
\* that is processing carry the identity of one worker, in the stored
\* table together with what that worker's own session has claimed.
C25_OneJobPerWorker ==
    \A w \in Workers :
        /\ (pc[w] # "idle" => ~ ENABLED DequeueJ(w))
        /\ \A j \in QJobIds, k \in QJobIds :
              (/\ RowSeen(w, j).status = "processing"
               /\ RowSeen(w, j).locked_by = WORKER_ID(w)
               /\ RowSeen(w, k).status = "processing"
               /\ RowSeen(w, k).locked_by = WORKER_ID(w))
              => j = k

\* what the observability sink is to receive with every record
RecordFields == {"job_id", "job_type", "trace_id", "attempts"}

\* C26: the runtime emits a structured record for each claim, each
\* completion and each failure, and every such record carries the job's
\* job_id, job_type, trace_id and attempts: the record of a claim is what
\* dequeue logs, that of a completion what complete_job logs, that of a
\* failure the job_failed event, which is pending in the session when
\* fail_job has returned.
C26_RecordPerOutcome ==
    [][\A w \in Workers :
          /\ DequeueReturns(w) =>
                RecordFields \subseteq
                    DOMAIN ClaimLog(WORKER_ID(w), cur'[w], mem'[w])
          /\ (pc[w] = "handler" /\ pc'[w] = "completing") =>
                RecordFields \subseteq DOMAIN CompleteLog(cur[w])
          /\ FailJobReturns(w) =>
                /\ evPending'[w]
                /\ RecordFields \subseteq
                      DOMAIN JobFailedEvent(cur[w], mem'[w], exc[w])]_vars

\* C27: an older job that is not yet eligible (pending, run_after ahead)
\* never blocks a younger eligible job: a dequeue that finds a younger job
\* eligible, unlocked and of a requested type returns an eligible job, not
\* none and not the older one; and a pending job is returned only once its
\* run_after has passed.
C27_DelayedOlderDoesNotBlock ==
    [][\A w \in Workers, job_types \in JobTypeFilters :
          DequeueQ(w, job_types) =>
              /\ \A k \in QJobIds, j \in QJobIds :
                    (/\ jobs[k].status = "pending"
                     /\ jobs[k].run_after > now
                     /\ jobs[j].status # "absent"
                     /\ jobs[k].created_at < jobs[j].created_at
                     /\ ClaimEligible(jobs[j], now)
                     /\ ~LockedByOther(w, j)
                     /\ (job_types = {} \/ jobs[j].job_type \in job_types))
                    => /\ pc'[w] = "holding"
                       /\ cur'[w] # k
                       /\ ClaimEligible(jobs[cur'[w]], now)
              /\ (pc'[w] = "holding" /\ jobs[cur'[w]].status = "pending")
                    => jobs[cur'[w]].run_after <= now]_vars

\* C27 witness: dequeue has just returned the younger job while the older
\* one, re-armed by fail_job, is pending with its run_after still ahead.
C27_Witness ==
    \E w \in Workers, k \in QJobIds :
        /\ pc[w] = "holding"
        /\ tx[w].row.locked_at = now
        /\ k # cur[w]
        /\ jobs[k].status = "pending"
        /\ jobs[k].error # NullStr
        /\ jobs[k].run_after > now
        /\ jobs[k].created_at < jobs[cur[w]].created_at

\* the handler of the job's type has just been invoked by w in this step
HandlerInvoked(w) == pc[w] = "idle" /\ pc'[w] = "handler"

\* C28: execution is at-least-once: the handler of a job is invoked on a
\* claim of a pending row or of a processing row whose lease has expired,
\* never on a fresh lease; and it is invoked while another worker's handler
\* for the same job is still running only by lease expiry (the stored lease
\* is at least 60 s old) or as a retry after a failure (the row is pending
\* with the error fail_job stored).
C28_AtLeastOnce ==
    [][\A w \in Workers :
          HandlerInvoked(w) =>
              LET j == cur'[w]
                  row == jobs[j]
                  expiry == /\ row.status = "processing"
                            /\ row.locked_at + LOCK_TIMEOUT_SECONDS <= now
                  retry == /\ row.status = "pending"
                           /\ row.error # NullStr
              IN /\ row.status = "pending" \/ expiry
                 /\ \A a \in Workers \ {w} :
                       (pc[a] = "handler" /\ cur[a] = j) =>
                           expiry \/ retry]_vars

\* C28 witness: worker a's handler for a job is still running more than
\* 60 s after its claim, worker b has claimed the job as stale, and both
\* handlers run at the same time.
C28_Witness ==
    \E a \in Workers, b \in Workers :
        /\ a # b
        /\ pc[a] = "handler"
        /\ pc[b] = "handler"
        /\ cur[a] = cur[b]
        /\ lease[b].at > lease[a].at + LOCK_TIMEOUT_SECONDS
        /\ lease[b].at = now
        /\ tx[b].job = cur[b]
        /\ tx[b].row.locked_by = WORKER_ID(b)
        /\ jobs[cur[a]].status = "processing"
        /\ jobs[cur[a]].locked_by = WORKER_ID(a)
        /\ jobs[cur[a]].error = NullStr

\* C29: checkpointed resume: when the handler is invoked again after an
\* interrupted invocation, no external step is performed whose output is
\* already committed (transcription: the transcript; reply generation:
\* assistant_reply; memory persistence: memories stored before; speech
\* synthesis: the audio file).
C29_CheckpointedResume ==
    [][voice.resumed =>
          /\ voice'.calls.stt > voice.calls.stt => ~voice.transcript
          /\ voice'.calls.llm > voice.calls.llm => ~voice.assistant_reply
          /\ voice'.calls.mem > voice.calls.mem => voice.calls.mem = 0
          /\ voice'.calls.tts > voice.calls.tts => ~voice.audio_file]_vars

\* the part of C29 the handler keeps: transcription and speech synthesis
\* are skipped once the transcript is committed / the audio file exists
C29_TranscriptAndSpeechResume ==
    [][/\ voice'.calls.stt > voice.calls.stt => ~voice.transcript
       /\ voice'.calls.tts > voice.calls.tts => ~voice.audio_file]_vars

\* the last instant of the clock of the specifications with fairness
ClockEnd == CHOOSE t \in LInstants : \A u \in LInstants : u <= t

\* the job waits for an instant the bounded clock does not reach: a backoff
\* or a lease that ends after ClockEnd
BeyondClock(j) ==
    \/ /\ jobs[j].status = "pending"
       /\ jobs[j].run_after > ClockEnd
    \/ /\ jobs[j].status = "processing"
       /\ jobs[j].locked_at + LOCK_TIMEOUT_SECONDS > ClockEnd

\* C30: with the workers kept running, time advancing and every handler
\* invocation ending, every enqueued job eventually reaches status complete
\* or failed (or, in the bounded model, waits for an instant after the end
\* of the clock).
C30_EventuallyTerminal ==
    \A j \in JobIds :
        (jobs[j].status # "absent")
            ~> (jobs[j].status \in {"complete", "failed"} \/ BeyondClock(j))

\* C31: in every reachable state every job has attempts <= max_attempts, in
\* the stored table and in what a session has claimed: a job that has been
\* claimed max_attempts times is never claimed again, also when its last
\* permitted attempt ended in a crash and it is reclaimed as a stale lease.
C31_AttemptsWithinBudget ==
    /\ \A j \in JobIds :
          jobs[j].status # "absent" =>
              jobs[j].attempts <= jobs[j].max_attempts
    /\ \A w \in Workers :
          tx[w].job # NoJob => tx[w].row.attempts <= tx[w].row.max_attempts

\* the columns a claim sets or a lease holder's complete_job / fail_job ends
LeaseOf(row) ==
    [c \in {"status", "locked_by", "locked_at", "run_after", "result"}
        |-> row[c]]

\* C32: a superseded worker cannot disturb the current lease: while job J is
\* stored as processing under worker b, who claimed it after the lease of
\* worker a expired and holds it in a running cycle, the commit of a late
\* complete_job or fail_job of a on J leaves J's status, locked_by,
\* locked_at, run_after and result as they were.
C32_SupersededCannotDisturb ==
    [][\A a \in Workers, b \in Workers :
          (/\ a # b
           /\ CommitComplete(a) \/ CommitFail(a)
           /\ cur[b] = cur[a]
           /\ InCycle(b)
           /\ lease[b].at >= lease[a].at + LOCK_TIMEOUT_SECONDS
           /\ jobs[cur[a]].status = "processing"
           /\ jobs[cur[a]].locked_by = WORKER_ID(b))
          => LeaseOf(jobs'[cur[a]]) = LeaseOf(jobs[cur[a]])]_vars

\* job j was returned to pending by fail_job, its backoff is over and it has
\* been claimed n times
RearmedDue(j, n) ==
    /\ jobs[j].status = "pending"
    /\ jobs[j].error # NullStr
    /\ jobs[j].run_after <= now
    /\ jobs[j].attempts = n

\* some session has claimed job j more than n times
ClaimedBeyond(j, n) ==
    /\ jobs[j].status # "absent"
    /\ \E w \in Workers : RowSeen(w, j).attempts > n

\* C33: a job re-armed by fail_job is retried: with the workers polling and
\* time advancing, a job that fail_job returned to pending is, once its
\* run_after has passed, eventually claimed again (its attempts increases).
C33_RearmedIsRetried ==
    \A j \in JobIds, n \in 0..4 :
        RearmedDue(j, n) ~> ClaimedBeyond(j, n)

\* the part of C33 the queue keeps: the re-armed job is claimed again when
\* no worker is still inside an earlier claim cycle of it
C33_RetriedWhenAlone ==
    \A j \in JobIds, n \in 0..4 :
        (RearmedDue(j, n) /\ \A w \in Workers : cur[w] # j)
            ~> ClaimedBeyond(j, n)

\* the committed columns of the interaction and its audio file
ColumnsOf(v) ==
    [c \in {"status", "transcript", "assistant_reply", "audio_output_path",
            "audio_file"} |-> v[c]]

\* C35: invoked for an interaction that is already complete and whose output
\* audio file exists, the handler returns a result marked idempotent without
\* calling transcription, the language model, memory storage or speech
\* synthesis, and without changing the interaction or the conversation.
C35_IdempotentFastReturn ==
    [][(/\ HEntry
        /\ voice.status = "complete"
        /\ voice.audio_output_path
        /\ voice.audio_file)
       => /\ voice'.pos = "none"
          /\ voice'.last = "returned"
          /\ voice'.result = "idempotent"
          /\ voice'.calls = voice.calls
          /\ ColumnsOf(voice') = ColumnsOf(voice)
          /\ conv' = conv]_vars

\* C35 witness: the handler of a complete interaction whose story request
\* opened the story intent was invoked again and has returned the
\* idempotent result.
C35_Witness ==
    /\ voice.invocations >= 2
    /\ voice.pos = "none"
    /\ voice.result = "idempotent"
    /\ voice.status = "complete"
    /\ voice.audio_file
    /\ conv.pending_intent = STORY_INTENT

\* C36: while the story intent is pending and awaits its confirmation, the
\* first plain "no" keeps story mode and asks for a new topic, and the
\* second plain "no" in a row (the next interaction, each handled by one
\* invocation) clears pending_intent and pending_slots.
C36_SecondNoEndsStory ==
    [][(/\ HStory
        /\ voice.invocations = 1
        /\ conv.pending_intent = STORY_INTENT
        /\ PlainNoAnswer(voice.said))
       => /\ (/\ conv.no_run = 0
              /\ conv.pending_slots.awaiting_confirmation
              /\ conv.pending_slots.no_count = 0)
             => /\ conv'.pending_intent = STORY_INTENT
                /\ voice'.reply = "new_topic"
          /\ conv.no_run = 1
             => /\ conv'.pending_intent = NullStr
                /\ conv'.pending_slots = NoSlots]_vars

\* the part of C36 the handler keeps: the first plain "no" keeps story mode
\* and asks for a new topic
C36_FirstNoKeepsStory ==
    [][(/\ HStory
        /\ voice.invocations = 1
        /\ conv.pending_intent = STORY_INTENT
        /\ PlainNoAnswer(voice.said)
        /\ conv.no_run = 0
        /\ conv.pending_slots.awaiting_confirmation
        /\ conv.pending_slots.no_count = 0)
       => /\ conv'.pending_intent = STORY_INTENT
          /\ voice'.reply = "new_topic"]_vars

\* C37: the story transition of a conversation is applied at most once per
\* interaction: when the story routing of an interaction runs again in a
\* later invocation, it leaves pending_intent and pending_slots as the first
\* invocation left them.
C37_StoryAppliedOnce ==
    [][(HStory /\ voice.applied # [none |-> TRUE])
       => StoryOf(conv') = voice.applied]_vars

\* C34: a job the voice upload enqueues becomes visible to the workers only
\* together with its interaction: while the request holds the flushed job no
\* row of it is in the table and no worker has it; a worker that claims a
\* job finds its interaction committed; the commit of the request stores
\* both in one step; a request that fails after enqueue leaves neither job
\* nor interaction.
C34_JobVisibleWithInteraction ==
    [][/\ \A j \in JobIds :
             Exists(j)' => voice'.status # "absent"
       /\ req'.job # NoJob =>
             /\ jobs'[req'.job].status = "absent"
             /\ voice'.status = "absent"
             /\ \A w \in Workers : cur'[w] # req'.job
       /\ \A w \in Workers :
             Dequeue(w) /\ cur'[w] # NoJob =>
                /\ req.job # cur'[w]
                /\ voice.status # "absent"
       /\ ReqCommit =>
             /\ ~Exists(req.job) /\ voice.status = "absent"
             /\ jobs'[req.job].status = "pending"
             /\ voice'.status = "pending"
       /\ req.job # NoJob /\ ReqFail =>
             /\ jobs'[req.job].status = "absent"
             /\ voice'.status = "absent"
             /\ \A w \in Workers : cur'[w] = NoJob]_vars

\* the request has committed and a worker has claimed its job, the
\* interaction being there and still pending
C34_Witness ==
    /\ req.pos = "none"
    /\ voice.status = "pending"
    /\ \E w \in Workers :
          /\ pc[w] = "handler"
          /\ cur[w] \in JobIds
          /\ tx[w].job = cur[w]
          /\ jobs[cur[w]].status = "pending"

\* the job of the interaction is over with the given status
JobOver(status) == \E j \in JobIds : jobs[j].status = status

\* C38: a client polling the interaction sees a terminal status once the job
\* is over: a job that ended 'failed' leads to an interaction with status
\* 'failed', a job that ended 'complete' to one with status 'complete'.
C38_TerminalStatusFollowsJob ==
    /\ JobOver("failed") ~> (voice.status = "failed")
    /\ JobOver("complete") ~> (voice.status = "complete")

\* no step of the upload or of the worker stores the status 'failed' on
\* the interaction: the handler writes 'processing' (line 194) and
\* 'complete' (line 471), run_loop and fail_job write the job only
C38_NeverMarkedFailed == voice.status # "failed"
====
